---------------------------- MODULE Spec2Model ----------------------------
(***************************************************************************)
(* LocalSeal: the pipeline orchestrator (LocalSealEngine.processFile) and  *)
(* the services it drives (ImageService, OCRService, NLPProcessor),        *)
(* modelled as a state machine whose steps are the synchronous segments    *)
(* of the JavaScript code between two suspension points (await).           *)
(***************************************************************************)
EXTENDS Integers, Sequences, FiniteSets, TLC

(***************************************************************************)
(* IEEE-754 binary64 arithmetic, as JavaScript's Number does it.           *)
(* A positive double is [e, hi, lo]: value = (hi * 2^27 + lo) * 2^(e-52),  *)
(* a 53-bit significand split in two so each half fits a machine integer.  *)
(* A bit string is a sequence of 0/1, least significant bit first.         *)
(***************************************************************************)
MantissaBits == 53
LoBits == 27
HiBits == 26

RECURSIVE Pow2(_)
Pow2(n) == IF n = 0 THEN 1 ELSE 2 * Pow2(n - 1)

ToBits(n, k) == [i \in 1..k |-> (n \div Pow2(i - 1)) % 2]

RECURSIVE FromBits(_)
FromBits(b) == IF b = <<>> THEN 0 ELSE Head(b) + 2 * FromBits(Tail(b))

Zeros(k) == [i \in 1..k |-> 0]

ShiftLeft(b, k) == Zeros(k) \o b

PadTo(b, n) == b \o Zeros(n - Len(b))

RECURSIVE AddCarry(_, _, _, _)
AddCarry(a, b, i, c) ==
    IF i > Len(a) THEN <<c>>
    ELSE LET s == a[i] + b[i] + c
         IN  <<s % 2>> \o AddCarry(a, b, i + 1, s \div 2)

BitAdd(a, b) ==
    LET n == IF Len(a) > Len(b) THEN Len(a) ELSE Len(b)
    IN  AddCarry(PadTo(a, n), PadTo(b, n), 1, 0)

\* Schoolbook product of two significands, on limbs of LimbBits bits so
\* that every partial sum fits a machine integer.
LimbBits == 14
LimbCount == 4

Limbs(b) ==
    [k \in 1..LimbCount |->
        FromBits(SubSeq(PadTo(b, LimbBits * LimbCount),
                        LimbBits * (k - 1) + 1, LimbBits * k))]

Term(a, b, i, k) ==
    IF (k + 1 - i) \in 1..LimbCount THEN a[i] * b[k + 1 - i] ELSE 0

Column(a, b, k) ==
    Term(a, b, 1, k) + Term(a, b, 2, k) + Term(a, b, 3, k) + Term(a, b, 4, k)

RECURSIVE MulCarry(_, _, _, _)
MulCarry(a, b, k, c) ==
    IF k > 2 * LimbCount - 1 THEN ToBits(c, LimbBits)
    ELSE LET s == Column(a, b, k) + c
         IN  ToBits(s % Pow2(LimbBits), LimbBits)
                 \o MulCarry(a, b, k + 1, s \div Pow2(LimbBits))

BitMul(a, b) == MulCarry(Limbs(a), Limbs(b), 1, 0)

TopBit(b) ==
    IF \A i \in 1..Len(b) : b[i] = 0 THEN 0
    ELSE CHOOSE i \in 1..Len(b) : b[i] = 1 /\ \A j \in (i + 1)..Len(b) : b[j] = 0

Mantissa(d) == ToBits(d.lo, LoBits) \o ToBits(d.hi, HiBits)

Pack(m, u) ==
    [e  |-> u + MantissaBits - 1,
     hi |-> FromBits(SubSeq(m, LoBits + 1, MantissaBits)),
     lo |-> FromBits(SubSeq(m, 1, LoBits))]

\* The exact value b * 2^u rounded to 53 significant bits, ties to even.
RoundNearestEven(b, u) ==
    LET L == TopBit(b) IN
    IF L <= MantissaBits
    THEN Pack(ShiftLeft(SubSeq(b, 1, L), MantissaBits - L), u - (MantissaBits - L))
    ELSE LET k      == L - MantissaBits
             kept   == SubSeq(b, k + 1, L)
             guard  == b[k]
             sticky == \E i \in 1..(k - 1) : b[i] = 1
             up     == guard = 1 /\ (sticky \/ kept[1] = 1)
             m1     == IF up THEN BitAdd(kept, <<1>>) ELSE kept
         IN  IF TopBit(m1) = MantissaBits + 1
             THEN Pack(SubSeq(m1, 2, MantissaBits + 1), u + k + 1)
             ELSE Pack(SubSeq(m1, 1, MantissaBits), u + k)

Ulp(d) == d.e - (MantissaBits - 1)

\* JavaScript a + b on positive doubles.
DAdd(a, b) ==
    LET u == IF Ulp(a) < Ulp(b) THEN Ulp(a) ELSE Ulp(b)
    IN  RoundNearestEven(BitAdd(ShiftLeft(Mantissa(a), Ulp(a) - u),
                                ShiftLeft(Mantissa(b), Ulp(b) - u)), u)

\* JavaScript a * b on positive doubles.
DMul(a, b) == RoundNearestEven(BitMul(Mantissa(a), Mantissa(b)), Ulp(a) + Ulp(b))

\* JavaScript a < b and a <= b: the order of positive doubles is the
\* lexicographic order of (exponent, significand).
DLess(a, b) ==
    \/ a.e < b.e
    \/ a.e = b.e /\ a.hi < b.hi
    \/ a.e = b.e /\ a.hi = b.hi /\ a.lo < b.lo

DLeq(a, b) == a = b \/ DLess(a, b)

\* The Number literals of processFile, as the parser rounds them.
Lit(e, hi, lo) == [e |-> e, hi |-> hi, lo |-> lo]
D0    == Lit(0 - 1023, 0, 0)              \* 0
D010  == Lit(0 - 4, 53687091, 26843546)   \* 0.1  = 0x1.999999999999ap-4
D015  == Lit(0 - 3, 40265318, 53687091)   \* 0.15 = 0x1.3333333333333p-3
D020  == Lit(0 - 3, 53687091, 26843546)   \* 0.2  = 0x1.999999999999ap-3
D040  == Lit(0 - 2, 53687091, 26843546)   \* 0.4  = 0x1.999999999999ap-2
D060  == Lit(0 - 1, 40265318, 53687091)   \* 0.6  = 0x1.3333333333333p-1
D065  == Lit(0 - 1, 43620761, 80530637)   \* 0.65 = 0x1.4cccccccccccdp-1
D070  == Lit(0 - 1, 46976204, 107374182)  \* 0.7  = 0x1.6666666666666p-1
D075  == Lit(0 - 1, 50331648, 0)          \* 0.75 = 0x1.8p-1
D080  == Lit(0 - 1, 53687091, 26843546)   \* 0.8  = 0x1.999999999999ap-1
D085  == Lit(0 - 1, 57042534, 53687091)   \* 0.85 = 0x1.b333333333333p-1
D090  == Lit(0 - 1, 60397977, 80530637)   \* 0.9  = 0x1.ccccccccccccdp-1
D095  == Lit(0 - 1, 63753420, 107374182)  \* 0.95 = 0x1.e666666666666p-1
D100  == Lit(0, 33554432, 0)              \* 1.0 and the integer 1


(***************************************************************************)
(* Data: files, options, license objects, OCR results.                     *)
(***************************************************************************)
\* The number of processFile calls that can be in flight at once; a slot is
\* taken by a call and free again once its promise has settled.
MaxRuns == 2
Runs == 1..MaxRuns

\* The number of processFile calls made on the engine over its life.
MaxCalls == 2

NoCanvas == 0

\* File objects: the type the browser reports and the extension of the name.
Files ==
    { [type |-> "image/png",       ext |-> "png"],
      [type |-> "application/pdf", ext |-> "pdf"],
      [type |-> "",                ext |-> "jpg"],
      [type |-> "",                ext |-> "txt"] }

\* blurIntensity = 20 when the options object has none
DefaultBlurIntensity == 20

\* "Intensite du flou (1-50)"
MaxBlurIntensity == 50

\* The options object of processFile, after the defaults are applied.
Options ==
    [anonymize : BOOLEAN, extractTextOnly : BOOLEAN,
     blurIntensity : {DefaultBlurIntensity}]

\* Options objects that ask for anonymization and name a block size, in the
\* documented range or above it.
GivenOptions ==
    [anonymize : {TRUE}, extractTextOnly : {FALSE},
     blurIntensity : {1, DefaultBlurIntensity, MaxBlurIntensity,
                      MaxBlurIntensity + 1}]

\* License objects: isPro, and requiresWatermark true, false or missing
\* (app.js adds requiresWatermark = !isPro to what checkLicense returns;
\* SecurityManager's own licenseStatus has no such field).
Tri == {"true", "false", "undefined"}
LicenseObjects == [isPro : BOOLEAN, requiresWatermark : Tri]

\* What the constructor is called with: null (given = FALSE) or an object.
NullLicense == [given |-> FALSE, isPro |-> FALSE, requiresWatermark |-> "undefined"]
LicenseArgs ==
    {NullLicense} \cup
    {[given |-> TRUE, isPro |-> l.isPro, requiresWatermark |-> l.requiresWatermark] :
        l \in LicenseObjects}

Truthy(v) == v = "true"

\* Strings are sequences of one-character strings where the code looks
\* inside them; a text is named by a TLA+ string and spelled by Chars.
Chars(t) ==
    CASE t = ""                 -> <<>>
      [] t = "facture"          -> <<"f","a","c","t","u","r","e">>
      [] t = "Marie Dupont"     -> <<"M","a","r","i","e"," ","D","u","p","o","n","t">>
      [] t = "Marie"            -> <<"M","a","r","i","e">>
      [] t = "Dupont"           -> <<"D","u","p","o","n","t">>
      [] t = "jean@example.com" -> <<"j","e","a","n","@","e","x","a","m","p","l","e",".","c","o","m">>
      [] t = "-"                -> <<"-">>
      [] t = "Marie Dupont facture" ->
             <<"M","a","r","i","e"," ","D","u","p","o","n","t"," ",
               "f","a","c","t","u","r","e">>
      [] t = "Marie Dupont - jean@example.com" ->
             <<"M","a","r","i","e"," ","D","u","p","o","n","t"," ","-"," ",
               "j","e","a","n","@","e","x","a","m","p","l","e",".","c","o","m">>

Word(t, box, w) == [text |-> t, bbox |-> [id |-> box, width |-> w]]

\* What the OCR collaborator can return: the text and its words with their
\* boxes; a box of width 0 is one getImageData refuses.
OcrResults ==
    { [text |-> "",                 words |-> <<>>],
      [text |-> "facture",          words |-> <<Word("facture", 1, 7)>>],
      [text |-> "Marie Dupont",     words |-> <<Word("Marie", 1, 5), Word("Dupont", 2, 6)>>],
      [text |-> "Marie Dupont",     words |-> <<Word("Marie", 1, 5), Word("Dupont", 2, 0)>>],
      [text |-> "jean@example.com", words |-> <<Word("jean@example.com", 1, 16)>>] }

\* Pages where the words are not all part of a target: a word of the
\* running text, a dash, a name next to an address.
MixedOcrResults ==
    { [text |-> "Marie Dupont facture",
       words |-> <<Word("Marie", 1, 5), Word("Dupont", 2, 6), Word("facture", 3, 7)>>],
      [text |-> "Marie Dupont - jean@example.com",
       words |-> <<Word("Marie", 1, 5), Word("Dupont", 2, 6), Word("-", 3, 1),
                   Word("jean@example.com", 4, 16)>>] }

NoOcr == [text |-> "", words |-> <<>>]

(***************************************************************************)
(* NLPProcessor                                                            *)
(***************************************************************************)
\* Compromise.js (external): the people it finds in a text.
People(t) ==
    IF t \in {"Marie Dupont", "Marie Dupont facture", "Marie Dupont - jean@example.com"}
    THEN <<[type |-> "person", text |-> "Marie Dupont"]>>
    ELSE <<>>

\* _detectSensitiveValues: the matches of the patterns in a text.
DetectSensitiveValues(t) ==
    IF t \in {"jean@example.com", "Marie Dupont - jean@example.com"}
    THEN <<[type |-> "email", text |-> "jean@example.com"]>>
    ELSE <<>>

IsBlank(t) == \A i \in 1..Len(Chars(t)) : Chars(t)[i] = " "

\* analyze: no total field on the two early returns.
Analyze(t, nlpLoaded) ==
    IF IsBlank(t) \/ ~nlpLoaded
    THEN [entities |-> <<>>, sensitive |-> <<>>, hasTotal |-> FALSE, total |-> 0]
    ELSE [entities  |-> People(t),
          sensitive |-> DetectSensitiveValues(t),
          hasTotal  |-> TRUE,
          total     |-> Len(People(t)) + Len(DetectSensitiveValues(t))]

ToLowerCase(c) ==
    CASE c = "M" -> "m" [] c = "D" -> "d" [] OTHER -> c

IsWordOrSpace(c) ==
    c \in {"a","c","d","e","f","i","j","l","m","n","o","p","r","t","u","x"," "}

\* _normalize: lower case, then everything but \w and \s removed.
Normalize(s) ==
    SelectSeq([i \in 1..Len(s) |-> ToLowerCase(s[i])], IsWordOrSpace)

\* a test for a prefix where the code tests for a substring
StartsWith(s, sub) == Len(sub) <= Len(s) /\ SubSeq(s, 1, Len(sub)) = sub

\* String.prototype.includes
Includes(s, sub) ==
    \E i \in 0..(Len(s) - Len(sub)) : SubSeq(s, i + 1, i + Len(sub)) = sub

RECURSIVE Flatten(_)
Flatten(ss) == IF ss = <<>> THEN <<>> ELSE Head(ss) \o Flatten(Tail(ss))

\* mapEntitiesToWords: one box per (target, word) pair that matches.
MapEntitiesToWords(nlp, words) ==
    LET allTargets == nlp.entities \o nlp.sensitive
        boxesOf(entity) ==
            LET hit(word) == Includes(Normalize(Chars(entity.text)),
                                      Normalize(Chars(word.text)))
                pick == SelectSeq(words, hit)
            IN  [i \in 1..Len(pick) |->
                    [bbox |-> pick[i].bbox, type |-> entity.type, text |-> pick[i].text]]
    IN  Flatten([i \in 1..Len(allTargets) |-> boxesOf(allTargets[i])])


(***************************************************************************)
(* SecurityManager: strings, 32-bit integers, the checksum of a key.       *)
(* A string is a sequence of one-character strings.                        *)
(***************************************************************************)
Digits == <<"0","1","2","3","4","5","6","7","8","9">>
UpperCase == <<"A","B","C","D","E","F","G","H","I","J","K","L","M",
               "N","O","P","Q","R","S","T","U","V","W","X","Y","Z">>
LowerCase == <<"a","b","c","d","e","f","g","h","i","j","k","l","m",
               "n","o","p","q","r","s","t","u","v","w","x","y","z">>

InSeq(seq, c) == \E i \in 1..Len(seq) : seq[i] = c
IndexOf(seq, c) == CHOOSE i \in 1..Len(seq) : seq[i] = c

\* input.charCodeAt(i), for the characters of keys and of the salt
CharCodeAt(c) ==
    IF InSeq(Digits, c) THEN 47 + IndexOf(Digits, c)
    ELSE IF InSeq(UpperCase, c) THEN 64 + IndexOf(UpperCase, c)
    ELSE IF InSeq(LowerCase, c) THEN 96 + IndexOf(LowerCase, c)
    ELSE IF c = "-" THEN 45
    ELSE 95

\* A 32-bit integer is [hi, lo]: value = hi * 2^16 + lo, with lo in
\* 0..65535 and hi in -32768..32767 (two's complement).
Half == 65536

\* ToInt32 of the exact value hi * 2^16 + lo (what & does to its operands)
ToInt32(hi, lo) ==
    LET l == lo % Half
        h == (hi + ((lo - l) \div Half)) % Half
    IN  [hi |-> IF 2 * h >= Half THEN h - Half ELSE h, lo |-> l]

Zero32 == [hi |-> 0, lo |-> 0]

\* hash << 5
ShiftLeft5(h) == ToInt32(h.hi * 32, h.lo * 32)

\* hash = ((hash << 5) - hash) + char; hash = hash & hash
HashStep(h, code) ==
    LET s == ShiftLeft5(h) IN ToInt32(s.hi - h.hi, (s.lo - h.lo) + code)

\* for (let i = 0; i < input.length; i++) { ... }
RECURSIVE HashOf(_, _)
HashOf(input, h) ==
    IF input = <<>> THEN h
    ELSE LET next == HashStep(h, CharCodeAt(Head(input)))
         IN  IF next.lo >= 0 THEN HashOf(Tail(input), next) ELSE next

\* Math.abs(hash): a magnitude [hi, lo] with hi in 0..32768
Abs32(h) ==
    IF h.hi >= 0 THEN h
    ELSE IF h.lo = 0 THEN [hi |-> 0 - h.hi, lo |-> 0]
    ELSE [hi |-> (0 - h.hi) - 1, lo |-> Half - h.lo]

HexDigits == Digits \o SubSeq(LowerCase, 1, 6)

RECURSIVE ToHex(_)
ToHex(n) ==
    IF n < 16 THEN <<HexDigits[n + 1]>>
    ELSE ToHex(n \div 16) \o <<HexDigits[(n % 16) + 1]>>

\* String.prototype.padStart
PadStart(s, n, c) == IF Len(s) >= n THEN s ELSE [i \in 1..(n - Len(s)) |-> c] \o s

\* Number.prototype.toString(16) of a magnitude
ToString16(m) ==
    IF m.hi = 0 THEN ToHex(m.lo) ELSE ToHex(m.hi) \o PadStart(ToHex(m.lo), 4, "0")

\* String.prototype.toUpperCase
ToUpperCase(s) ==
    [i \in 1..Len(s) |->
        IF InSeq(LowerCase, s[i]) THEN UpperCase[IndexOf(LowerCase, s[i])] ELSE s[i]]

\* String.prototype.slice(-n)
SliceLast(s, n) == IF Len(s) <= n THEN s ELSE SubSeq(s, (Len(s) - n) + 1, Len(s))

\* SALT = "LocalSeal_V2_Secret_Salt_2026"
Salt == <<"L","o","c","a","l","S","e","a","l","_","V","2","_",
          "S","e","c","r","e","t","_","S","a","l","t","_","2","0","2","6">>

\* calculatedCheck, from payload = parts.slice(0, 3).join('-')
CalculatedCheck(payload) ==
    SliceLast(PadStart(ToUpperCase(ToString16(Abs32(HashOf(payload \o Salt, Zero32)))),
                       4, "0"), 4)

\* /^[A-Z0-9]{4}-[A-Z0-9]{4}-[A-Z0-9]{4}-[A-Z0-9]{4}$/.test(key)
IsKeyChar(c) == InSeq(UpperCase, c) \/ InSeq(Digits, c)

WellFormed(key) ==
    /\ Len(key) = 19
    /\ \A i \in 1..19 : IF i \in {5, 10, 15} THEN key[i] = "-" ELSE IsKeyChar(key[i])

\* key.split('-')[n - 1] of a key of that shape
Part(key, n) == SubSeq(key, (5 * (n - 1)) + 1, (5 * (n - 1)) + 4)

\* parts.slice(0, 3).join('-')
Payload(key) == Part(key, 1) \o <<"-">> \o Part(key, 2) \o <<"-">> \o Part(key, 3)

\* The value of a hexadecimal digit, -1 for any other character.
HexValue(c) ==
    IF InSeq(Digits, c) THEN IndexOf(Digits, c) - 1
    ELSE IF InSeq(SubSeq(UpperCase, 1, 6), c) THEN 9 + IndexOf(UpperCase, c)
    ELSE 0 - 1

RECURSIVE ParseHexPrefix(_, _)
ParseHexPrefix(s, acc) ==
    IF s = <<>> \/ HexValue(Head(s)) < 0 THEN acc
    ELSE ParseHexPrefix(Tail(s), (acc * 16) + HexValue(Head(s)))

NaN == [nan |-> TRUE, value |-> 0]

\* parseInt(s, 16): an optional 0x / 0X is skipped, then the longest prefix of
\* hexadecimal digits is read; NaN when there is none.
ParseInt16(s) ==
    LET t == IF Len(s) >= 2 /\ s[1] = "0" /\ s[2] \in {"x", "X"}
             THEN SubSeq(s, 3, Len(s)) ELSE s
    IN  IF t = <<>> \/ HexValue(Head(t)) < 0 THEN NaN
        ELSE [nan |-> FALSE, value |-> ParseHexPrefix(t, 0)]

\* !(diff < 0 || diff > 5) with diff = currentMinutes - keyMinutes; every
\* comparison with NaN is false
InTimeWindow(keyMinutes, currentMinutes) ==
    keyMinutes.nan \/
    ~(currentMinutes - keyMinutes.value < 0 \/ currentMinutes - keyMinutes.value > 5)


(***************************************************************************)
(* State.                                                                  *)
(***************************************************************************)
VARIABLES
    licenseStatus,  \* engine.licenseStatus
    state,          \* engine.state: currentStep, progress, isProcessing
    imageService,   \* canvas and ctx: NoCanvas, or r for the canvas run r created
    buffers,        \* the pixels of each canvas, as the set of boxes pixelated
                    \* and the number of watermark layers (NoPixels once the
                    \* service has dropped the canvas: nothing refers to it)
    ocrService,     \* isInitialized and worker of the OCRService
    nlpLoaded,      \* whether window.nlp exists in this execution context
    run,            \* per call slot: where the latest processFile call made in
                    \* it is suspended, and its locals
    log,            \* per call slot: what that call emitted, called and did
    calls,          \* the number of processFile calls made so far
    securityManager, \* per page: the SecurityManager's licenseStatus and its
                    \* activateLicense call in progress
    localStorage,   \* localseal_license, localseal_counter, localseal_used_keys
    app,            \* per page: app.js's licenseStatus and its handleFiles loop
    accepted,       \* the keys for which activateLicense resolved true, in order
    now,            \* Date.now(), in minutes
    workerManager,  \* the WorkerManager of the main thread: worker, isReady
    worker,         \* the execution context of ocr.worker.js, whose engine the
                    \* engine variables then are
    inbox,          \* messages posted to the worker and not yet handled by it
    outbox,         \* messages posted by the worker and not yet received by
                    \* the main thread, by type ('progress' messages, which
                    \* only call onProgress, are left out)
    redaction       \* an ImageService's canvas pixel by pixel, and the calls
                    \* of blurRegions made on it

engineVars == <<licenseStatus, state, imageService, buffers, ocrService, nlpLoaded, run,
                log, calls>>

siteVars == <<securityManager, localStorage, app, accepted, now>>

workerVars == <<workerManager, worker, inbox, outbox>>

pixelVars == <<redaction>>

vars == <<licenseStatus, state, imageService, buffers, ocrService, nlpLoaded, run, log,
          calls, securityManager, localStorage, app, accepted, now,
          workerManager, worker, inbox, outbox, redaction>>

NoPixels == [blurred |-> {}, marks |-> 0, sizes |-> {}]

IdleRun ==
    [pc |-> "idle", file |-> [type |-> "", ext |-> ""],
     options |-> [anonymize |-> FALSE, extractTextOnly |-> FALSE,
                  blurIntensity |-> DefaultBlurIntensity],
     ocr |-> NoOcr, nlpTotal |-> 0,
     pendingCanvas |-> NoCanvas, pendingPixels |-> NoPixels,
     caughtCanvas |-> NoCanvas,
     settledCanvas |-> NoCanvas, settledCtx |-> NoCanvas,
     output |-> [kind |-> "none", canvas |-> NoCanvas, pixels |-> NoPixels],
     watermarked |-> "undefined", error |-> "", rejection |-> "",
     licenseRead |-> [isPro |-> FALSE, requiresWatermark |-> "undefined"]]

\* The whole state as one record, so that a segment of code is a function
\* from state to state; exc is the exception in flight ("" when none).
World ==
    [licenseStatus |-> licenseStatus, state |-> state, imageService |-> imageService,
     buffers |-> buffers, ocrService |-> ocrService, run |-> run, log |-> log,
     exc |-> ""]

\* The messages a worker posts for what a run emitted and for how it
\* settled: the callbacks set by initEngine post 'complete' and 'error', the
\* listener posts 'result' after the await of processFile and 'error' in
\* its catch block.
TerminalMessages(entries, pc) ==
    [i \in 1..Len(SelectSeq(entries, LAMBDA e : e.kind \in {"complete", "error"})) |->
        SelectSeq(entries, LAMBDA e : e.kind \in {"complete", "error"})[i].kind]
    \o (IF pc = "resolved" THEN <<"result">>
        ELSE IF pc = "rejected" THEN <<"error">>
        ELSE <<>>)

\* What the runs that moved in a segment make the worker post, w being the
\* state at the end of the segment.
RECURSIVE PostsFrom(_, _)
PostsFrom(w, r) ==
    IF r > MaxRuns THEN <<>>
    ELSE (IF w.log[r] # log[r]
          THEN TerminalMessages(SubSeq(w.log[r], Len(log[r]) + 1, Len(w.log[r])),
                                w.run[r].pc)
          ELSE <<>>) \o PostsFrom(w, r + 1)

\* The engine posts only when a worker made it, and nothing reaches the main
\* thread once it has called worker.terminate().
WorkerPosts(w) ==
    IF worker.engine /\ ~worker.closing THEN PostsFrom(w, 1) ELSE <<>>

Commit(w) ==
    /\ licenseStatus' = w.licenseStatus
    /\ state' = w.state
    /\ imageService' = w.imageService
    /\ buffers' = w.buffers
    /\ ocrService' = w.ocrService
    /\ run' = w.run
    /\ log' = w.log
    /\ UNCHANGED <<nlpLoaded, calls>>
    /\ UNCHANGED siteVars
    /\ UNCHANGED pixelVars
    /\ UNCHANGED <<workerManager, worker, inbox>>
    /\ outbox' = outbox \o WorkerPosts(w)

\* Commit for the step that counts a call (the caller says what becomes of
\* the worker's variables: the call may be the handling of a message).
Started(w) ==
    /\ licenseStatus' = w.licenseStatus
    /\ state' = w.state
    /\ imageService' = w.imageService
    /\ buffers' = w.buffers
    /\ ocrService' = w.ocrService
    /\ run' = w.run
    /\ log' = w.log
    /\ UNCHANGED nlpLoaded
    /\ UNCHANGED siteVars
    /\ UNCHANGED pixelVars

PixelsOf(w, c) == IF c = NoCanvas THEN NoPixels ELSE w.buffers[c]

\* A log entry. A progress entry keeps the pixels of the current canvas, an
\* "op" or "error" entry the canvas the service holds at that moment.
Event(w, kind, name, progress, text) ==
    [kind |-> kind, name |-> name, progress |-> progress, text |-> text,
     canvas |-> IF kind \in {"op", "error"} THEN w.imageService.canvas ELSE NoCanvas,
     pixels |-> IF kind = "progress" THEN PixelsOf(w, w.imageService.canvas)
                ELSE NoPixels]

Record(w, r, kind, name) ==
    [w EXCEPT !.log[r] = Append(@, Event(w, kind, name, D0, ""))]

Throw(w, msg) == [w EXCEPT !.exc = msg]

(***************************************************************************)
(* LocalSealEngine: constructor, event channels.                           *)
(***************************************************************************)
\* constructor: licenseStatus || { isPro: false, requiresWatermark: true }
Constructor(arg) ==
    IF arg.given
    THEN [isPro |-> arg.isPro, requiresWatermark |-> arg.requiresWatermark]
    ELSE [isPro |-> FALSE, requiresWatermark |-> "true"]

\* _emitProgress, with one subscriber that appends what it is told to log[r]
EmitProgress(w, r, step, progress) ==
    LET w1 == [w EXCEPT !.state.currentStep = step, !.state.progress = progress]
    IN  [w1 EXCEPT !.log[r] = Append(@, Event(w1, "progress", step, progress, ""))]

\* _emitComplete
EmitComplete(w, r, name, text) ==
    LET w1 == [w EXCEPT !.state.isProcessing = FALSE]
    IN  [w1 EXCEPT !.log[r] = Append(@, Event(w1, "complete", name, D0, text))]

\* _emitError
EmitError(w, r, msg) ==
    LET w1 == [w EXCEPT !.state.isProcessing = FALSE]
    IN  [w1 EXCEPT !.log[r] = Append(@, Event(w1, "error", msg, D0, "")),
                   !.run[r].error = msg]

(***************************************************************************)
(* ImageService                                                            *)
(***************************************************************************)
\* initCanvas: a new canvas (named after the run that creates it) replaces
\* whatever canvas the service held.
InitCanvas(w, r) ==
    Record([w EXCEPT !.imageService = [canvas |-> r, ctx |-> r],
                     !.buffers = [c \in Runs |-> NoPixels]], r, "op", "initCanvas")

\* forEach box: getImageData, _pixelate, putImageData; getImageData throws
\* on a box of width 0, the boxes before it stay pixelated.
RECURSIVE BlurBoxes(_, _)
BlurBoxes(w, boxes) ==
    IF boxes = <<>> THEN w
    ELSE IF Head(boxes).bbox.width = 0 THEN Throw(w, "IndexSizeError")
    ELSE BlurBoxes([w EXCEPT !.buffers[w.imageService.ctx].blurred =
                                 @ \cup {Head(boxes).bbox.id}], Tail(boxes))

\* blurRegions(boxes, blurIntensity): sizes keeps the block sizes the canvas
\* was pixelated with
BlurRegions(w, r, boxes, blurIntensity) ==
    IF w.imageService.ctx = NoCanvas THEN Throw(w, "Canvas non initialise")
    ELSE BlurBoxes(Record([w EXCEPT !.buffers[w.imageService.ctx].sizes =
                                        @ \cup {blurIntensity}],
                          r, "op", "blurRegions"), boxes)

\* addSmartWatermark
AddSmartWatermark(w, r) ==
    IF w.imageService.ctx = NoCanvas THEN Throw(w, "Canvas non initialise")
    ELSE Record([w EXCEPT !.buffers[w.imageService.ctx].marks = @ + 1],
                r, "op", "addSmartWatermark")

DestroyKeepsCanvas(is) == is

\* destroy
Destroy(is) ==
    IF is.canvas # NoCanvas THEN [canvas |-> NoCanvas, ctx |-> NoCanvas] ELSE is

(***************************************************************************)
(* LocalSealEngine.processFile, one operator per piece of its body.        *)
(***************************************************************************)
\* _detectMimeType
DetectMimeType(file) ==
    IF file.type # "" THEN file.type
    ELSE CASE file.ext = "jpg"  -> "image/jpeg"
           [] file.ext = "jpeg" -> "image/jpeg"
           [] file.ext = "png"  -> "image/png"
           [] file.ext = "webp" -> "image/webp"
           [] file.ext = "pdf"  -> "application/pdf"
           [] OTHER             -> "application/octet-stream"

IsPdf(file) == DetectMimeType(file) = "application/pdf"

\* mimeType.startsWith('image/') || isPdf
Supported(file) ==
    DetectMimeType(file) \in {"image/jpeg", "image/png", "image/webp", "application/pdf"}

\* The promise settles: the run's position and what the image service holds
\* at that moment.
Settle(w, r, how) ==
    [w EXCEPT !.run[r].pc = how,
              !.run[r].settledCanvas = w.imageService.canvas,
              !.run[r].settledCtx = w.imageService.ctx]

\* finally { this.imageService.destroy() }
Finally(w) ==
    LET is == Destroy(w.imageService)
    IN  [w EXCEPT !.imageService = is,
                  !.buffers = [c \in Runs |-> IF c = is.canvas THEN @[c] ELSE NoPixels]]

CatchAfterCleanup(w, r) ==
    Settle(EmitError(Finally([w EXCEPT !.exc = "",
                                       !.run[r].rejection = w.exc,
                                       !.run[r].caughtCanvas = w.imageService.canvas]),
                     r, w.exc), r, "rejected")

\* catch (error) { this._emitError(error); throw error } finally { ... }
\* (caughtCanvas remembers the canvas held when the catch block is entered,
\* rejection the error that is thrown again)
Catch(w, r) ==
    Settle(Finally(EmitError([w EXCEPT !.exc = "",
                                       !.run[r].rejection = w.exc,
                                       !.run[r].caughtCanvas = w.imageService.canvas],
                             r, w.exc)), r, "rejected")

\* return value; finally { ... }
Return(w, r) == Settle(Finally(w), r, "resolved")

\* await of an external call: the run is suspended until the call settles.
\* An export reads the canvas at the call (toBlob and toDataURL copy the
\* bitmap then), and rejects if there is none.
Await(w, r, call) ==
    [Record(w, r, "call", call) EXCEPT
        !.run[r].pc = call,
        !.run[r].pendingCanvas = w.imageService.canvas,
        !.run[r].pendingPixels = PixelsOf(w, w.imageService.canvas)]

\* the awaited call has settled and the run continues
Resume(w, r, call) == Record(w, r, "settled", call)

TextOnlyIgnored(options) == FALSE

\* if (extractTextOnly)
TextOnlyBranch(options) == options.extractTextOnly

AnonymizeAlways(options) == TRUE

\* if (anonymize)
AnonymizeBranch(options) == options.anonymize

HasTargetsOrNone(nlp) == nlp.hasTotal /\ nlp.total >= 0

\* if (nlpResult.total > 0): undefined > 0 is false
HasTargets(nlp) == nlp.hasTotal /\ nlp.total > 0

\* if (this.licenseStatus.requiresWatermark)
WatermarkBranch(ls) == Truthy(ls.requiresWatermark)

\* Step 4: the anonymization block
Anonymization(w, r) ==
    LET w1  == EmitProgress(w, r, "nlp_analysis", D065)
        nlp == Analyze(w.run[r].ocr.text, nlpLoaded)
        w2  == [Record(w1, r, "op", "analyze") EXCEPT
                    !.run[r].nlpTotal = IF nlp.hasTotal THEN nlp.total ELSE 0]
        w3  == EmitProgress(w2, r, "nlp_complete", D070)
    IN  IF HasTargets(nlp)
        THEN LET w4 == EmitProgress(w3, r, "blur_start", D075)
                 w5 == BlurRegions(w4, r, MapEntitiesToWords(nlp, w.run[r].ocr.words),
                                   w.run[r].options.blurIntensity)
             IN  IF w5.exc # "" THEN w5
                 ELSE EmitProgress(w5, r, "blur_complete", D085)
        ELSE EmitProgress(w3, r, "blur_skip", D080)

\* Step 5: the watermark block (licenseRead remembers the object tested)
Watermark(w, r) ==
    LET w1 == [w EXCEPT !.run[r].licenseRead = w.licenseStatus]
    IN  IF WatermarkBranch(w.licenseStatus)
        THEN AddSmartWatermark(EmitProgress(w1, r, "watermark", D090), r)
        ELSE w1

\* Step 6 up to the await of the export call
StartExport(w, r) ==
    Await(EmitProgress(w, r, "export", D095), r,
          IF IsPdf(w.run[r].file) THEN "exportAsPDF" ELSE "exportAsFile")

AfterOcrWatermarkFirst(w, r) ==
    LET w1 == Watermark(w, r)
        w2 == IF w1.exc # "" \/ ~AnonymizeBranch(w.run[r].options) THEN w1
              ELSE Anonymization(w1, r)
    IN  IF w2.exc # "" THEN Catch(w2, r) ELSE StartExport(w2, r)

\* Steps 4 to 6, a throw skipping the rest
AfterOcr(w, r) ==
    LET w1 == IF AnonymizeBranch(w.run[r].options) THEN Anonymization(w, r) ELSE w
        w2 == IF w1.exc # "" THEN w1 ELSE Watermark(w1, r)
    IN  IF w2.exc # "" THEN Catch(w2, r) ELSE StartExport(w2, r)

\* the text-only return
TextOnly(w, r) ==
    Return(EmitComplete([w EXCEPT !.run[r].output =
                                      [kind |-> "text", canvas |-> NoCanvas,
                                       pixels |-> NoPixels]],
                        r, "text", w.run[r].ocr.text), r)

\* the progress the OCR callback computes from a reported fraction
OcrProgress(fraction) == DAdd(D020, DMul(fraction, D040))

\* OCRService.extractText reports once, with progress: 1
OcrReported == D100

OcrProcessingProgress == OcrProgress(OcrReported)

\* extractText up to its first await
CallExtractText(w, r) ==
    Await(w, r, IF w.ocrService.isInitialized THEN "recognize" ELSE "createWorker")

\* Steps 2 and 3 after loadImage has resolved
AfterLoad(w, r) ==
    CallExtractText(EmitProgress(InitCanvas(Resume(w, r, "loadImage"), r),
                                 r, "ocr_start", D020), r)

LoadImageNotAwaited(w, r) ==
    CallExtractText(EmitProgress(InitCanvas(Record(w, r, "call", "loadImage"), r),
                                 r, "ocr_start", D020), r)

\* await this.imageService.loadImage(file)
AwaitLoadImage(w, r) == Await(w, r, "loadImage")

(***************************************************************************)
(* Actions: the synchronous segments.                                      *)
(***************************************************************************)
InFlight(r) == run[r].pc \notin {"idle", "resolved", "rejected"}

NoRunInFlight == \A q \in Runs : ~InFlight(q)

\* processFile is called: everything up to the await of loadImage. Nothing
\* in it looks at state.isProcessing. The call takes the lowest free slot.
ProcessFile(r, file, options) ==
    /\ calls < MaxCalls
    /\ ~InFlight(r)
    /\ \A q \in Runs : q < r => InFlight(q)
    /\ calls' = calls + 1
    /\ LET w0 == [World EXCEPT !.run[r] = [IdleRun EXCEPT !.pc = "running",
                                                          !.file = file,
                                                          !.options = options],
                               !.log[r] = <<>>,
                               !.state.isProcessing = TRUE]
           w1 == EmitProgress(w0, r, "mime_detection", D010)
       IN  IF ~Supported(file)
           THEN Started(Catch(Throw(w1, "Unsupported file type"), r))
           ELSE Started(AwaitLoadImage(EmitProgress(w1, r, "image_load", D015), r))

LoadImageRetried(r, ok) ==
    /\ run[r].pc = "loadImage"
    /\ IF ok THEN Commit(AfterLoad(World, r))
       ELSE Commit(Await(Resume(World, r, "loadImage"), r, "loadImage"))

\* loadImage settles.
LoadImageSettles(r, ok) ==
    /\ run[r].pc = "loadImage"
    /\ IF ok THEN Commit(AfterLoad(World, r))
       ELSE Commit(Catch(Throw(Resume(World, r, "loadImage"), "Impossible de charger l'image"), r))

\* Tesseract.createWorker settles; initialize returns and extractText goes on
\* to recognize, or initialize throws and extractText rejects.
CreateWorkerSettles(r, ok) ==
    /\ run[r].pc = "createWorker"
    /\ IF ok
       THEN Commit([World EXCEPT !.ocrService = [isInitialized |-> TRUE, worker |-> r],
                                 !.run[r].pc = "recognize"])
       ELSE Commit(Catch(Throw(Resume(World, r, "extractText"),
                               "Echec d'initialisation OCR"), r))

\* worker.recognize settles; extractText reports progress 1 and returns, or
\* wraps the error and throws.
RecognizeSettles(r, ok, result) ==
    /\ run[r].pc = "recognize"
    /\ IF ok
       THEN Commit([EmitProgress(World, r, "ocr_processing", OcrProcessingProgress)
                       EXCEPT !.run[r].pc = "extractText", !.run[r].ocr = result])
       ELSE /\ result = NoOcr
            /\ Commit(Catch(Throw(Resume(World, r, "extractText"),
                                  "Echec de l'extraction OCR"), r))

\* processFile resumes after extractText: ocr_complete, then either the
\* text-only return or steps 4 to 6.
ExtractTextReturns(r) ==
    /\ run[r].pc = "extractText"
    /\ LET w1 == EmitProgress(Resume(World, r, "extractText"), r, "ocr_complete", D060)
       IN  IF TextOnlyBranch(run[r].options)
           THEN Commit(TextOnly(w1, r))
           ELSE Commit(AfterOcr(w1, r))

\* exportAsPDF / exportAsFile settles: it rejects when there was no canvas
\* at the call, and may reject otherwise (toBlob gives null).
ExportSettles(r, ok) ==
    /\ run[r].pc \in {"exportAsPDF", "exportAsFile"}
    /\ ok => run[r].pendingCanvas # NoCanvas
    /\ LET w1 == Resume(World, r, "export") IN
       IF ok
       THEN Commit(Await(EmitProgress(
                       [w1 EXCEPT !.run[r].output =
                           [kind |-> "file", canvas |-> run[r].pendingCanvas,
                            pixels |-> run[r].pendingPixels]],
                       r, "complete", D100), r, "exportAsBlob"))
       ELSE Commit(Catch(Throw(w1, "Echec de l'export"), r))

\* the thumbnail's exportAsBlob settles; the result is built, the completion
\* channel notified and the promise resolved.
ThumbnailSettles(r, ok) ==
    /\ run[r].pc = "exportAsBlob"
    /\ ok => run[r].pendingCanvas # NoCanvas
    /\ LET w1 == Resume(World, r, "exportAsBlob") IN
       IF ok
       THEN Commit(Return(EmitComplete(
                       [w1 EXCEPT !.run[r].watermarked = licenseStatus.requiresWatermark],
                       r, "result", run[r].ocr.text), r))
       ELSE Commit(Catch(Throw(w1, "Canvas non initialise"), r))

\* engine.licenseStatus = licenseStatus
SetLicenseStatus(ls) ==
    /\ ls # licenseStatus
    /\ licenseStatus' = ls
    /\ UNCHANGED <<state, imageService, buffers, ocrService, nlpLoaded, run, log, calls>>
    /\ UNCHANGED siteVars
    /\ UNCHANGED pixelVars
    /\ UNCHANGED workerVars

(***************************************************************************)
(* SecurityManager and the page that uses it (app.js).                     *)
(* A page is one load of the application: its own SecurityManager and      *)
(* handlers, with the localStorage of the origin shared between pages.     *)
(* Nothing in the repository calls resetLicense.                           *)
(***************************************************************************)
\* The pages open on the origin at once.
MaxTabs == 2
Tabs == 1..MaxTabs

\* The files of one handleFiles call.
MaxBatch == 3

\* maxFilesPerDay: 5
MaxFilesPerDay == 5

\* maxFileSize: 2 * 1024 * 1024
DefaultMaxFileSize == 2097152

\* Infinity, which the code only compares and never computes with.
Infinity == 2147483647

\* Date.now() in minutes; a clock reading at which a key issued at 0x3000
\* is in its window, and the readings around it, the next day, and a
\* present-day reading (after the year of a license has passed).
IssuedMinutes == ParseInt16(<<"3","0","0","0">>).value
Clock ==
    {IssuedMinutes - 1, IssuedMinutes, IssuedMinutes + 5, IssuedMinutes + 6,
     IssuedMinutes + 1440, 29900000}

\* new Date().toDateString(): the calendar day of a clock reading
Today(t) == t \div 1440

\* Date.now() + (365 * 24 * 60 * 60 * 1000), in minutes
OneYearLater(t) == t + 525600

\* Key strings: well formed with the right checksum (issued at 0x3000, or
\* with a second group that is no hexadecimal number), with a wrong
\* checksum, and not of the shape.
KeyOf(payload, check) == payload \o <<"-">> \o check

PayloadIssued == <<"A","A","A","A","-","3","0","0","0","-","A","A","A","A">>
PayloadNoHex  == <<"A","A","A","A","-","Z","Z","Z","Z","-","A","A","A","A">>

Keys ==
    { KeyOf(PayloadIssued, CalculatedCheck(PayloadIssued)),
      KeyOf(PayloadIssued, <<"0","0","0","0">>),
      KeyOf(PayloadNoHex, CalculatedCheck(PayloadNoHex)),
      <<"a","a","a","a","-","3","0","0","0","-","A","A","A","A","-","D","9","D","B">> }

\* File objects as handleFiles reads them: type and size.
BatchFiles ==
    { [type |-> "image/png",  size |-> 1000],
      [type |-> "image/png",  size |-> 3000000],
      [type |-> "text/plain", size |-> 1000] }

RECURSIVE SeqsUpTo(_, _)
SeqsUpTo(S, n) ==
    IF n = 0 THEN {<<>>}
    ELSE SeqsUpTo(S, n - 1) \cup
         {Append(q, x) : q \in {q \in SeqsUpTo(S, n - 1) : Len(q) = n - 1}, x \in S}

Batches == SeqsUpTo(BatchFiles, MaxBatch) \ {<<>>}

\* SecurityManager.licenseStatus of the constructor and of resetLicense
FreeStatus ==
    [isPro |-> FALSE, expirationDate |-> 0, maxFilesPerDay |-> MaxFilesPerDay,
     remainingFiles |-> MaxFilesPerDay, maxFileSize |-> DefaultMaxFileSize,
     licenseKey |-> <<>>]

\* the licenseStatus checkLicense and activateLicense build for a license
ProStatus(expirationDate, key) ==
    [isPro |-> TRUE, expirationDate |-> expirationDate, maxFilesPerDay |-> Infinity,
     remainingFiles |-> Infinity, maxFileSize |-> Infinity, licenseKey |-> key]

NoActivation == [pc |-> "idle", key |-> <<>>, usedKeys |-> <<>>]

NoResult == [key |-> <<>>, success |-> FALSE, failedAt |-> "none", at |-> 0]

\* new SecurityManager(); granted counts the calls of consumeFileCredit that
\* returned true
NewSecurityManager ==
    [licenseStatus |-> FreeStatus, activation |-> NoActivation, result |-> NoResult,
     activated |-> FALSE, granted |-> 0]

\* The page before its initialization has run.
NewApp ==
    [ready |-> FALSE, recheck |-> FALSE,
     licenseStatus |-> [isPro |-> FALSE, maxFileSize |-> 0],
     pc |-> "idle", files |-> <<>>, i |-> 0,
     invoked |-> {}, credited |-> {}, refused |-> {}, rejected |-> {},
     successCount |-> 0, errorCount |-> 0, skippedCount |-> 0, resolved |-> {}]

NoLicense == [present |-> FALSE, key |-> <<>>, expirationDate |-> 0]
NoCounter == [present |-> FALSE, date |-> 0, count |-> 0]

EmptyStorage == [license |-> NoLicense, counter |-> NoCounter, usedKeys |-> <<>>]

\* The state of the site as one record; ret is the value a call returned,
\* exc whether it threw.
Site ==
    [securityManager |-> securityManager, localStorage |-> localStorage, app |-> app,
     accepted |-> accepted, ret |-> FALSE, exc |-> FALSE]

CommitSite(w) ==
    /\ securityManager' = w.securityManager
    /\ localStorage' = w.localStorage
    /\ app' = w.app
    /\ accepted' = w.accepted
    /\ UNCHANGED now
    /\ UNCHANGED engineVars
    /\ UNCHANGED workerVars
    /\ UNCHANGED pixelVars

\* _updateFileCounter
UpdateFileCounter(w, t) ==
    LET counter == w.localStorage.counter
        ls == w.securityManager[t].licenseStatus
        fresh == [present |-> TRUE, date |-> Today(now), count |-> 0]
    IN  IF counter.present
        THEN IF counter.date = Today(now)
             THEN [w EXCEPT !.securityManager[t].licenseStatus.remainingFiles =
                       IF ls.maxFilesPerDay - counter.count > 0
                       THEN ls.maxFilesPerDay - counter.count ELSE 0]
             ELSE [w EXCEPT !.securityManager[t].licenseStatus.remainingFiles =
                                ls.maxFilesPerDay,
                            !.localStorage.counter = fresh]
        ELSE [w EXCEPT !.localStorage.counter = fresh]

\* checkLicense, the body of its timer; it resolves with this.licenseStatus,
\* of which the page keeps what handleFiles reads.
CheckLicense(w, t) ==
    LET license == w.localStorage.license
        w1 == IF license.present /\ license.expirationDate > now
              THEN [w EXCEPT !.securityManager[t].licenseStatus =
                                 ProStatus(license.expirationDate, license.key)]
              ELSE w
        w2 == IF ~w1.securityManager[t].licenseStatus.isPro
              THEN UpdateFileCounter(w1, t) ELSE w1
    IN  [w2 EXCEPT !.app[t].licenseStatus =
                       [isPro |-> w2.securityManager[t].licenseStatus.isPro,
                        maxFileSize |-> w2.securityManager[t].licenseStatus.maxFileSize]]

ConsumeAlwaysCounts(w, t) ==
    LET w1 == [w EXCEPT !.securityManager[t].licenseStatus.remainingFiles = @ - 1]
    IN  IF w.securityManager[t].licenseStatus.remainingFiles <= 0
        THEN [w EXCEPT !.ret = FALSE]
        ELSE IF ~w1.localStorage.counter.present THEN [w1 EXCEPT !.exc = TRUE]
        ELSE [w1 EXCEPT !.localStorage.counter.count = @ + 1, !.ret = TRUE]

\* consumeFileCredit; JSON.parse(null).count++ throws when there is no
\* counter in the storage
ConsumeFileCredit(w, t) ==
    LET ls == w.securityManager[t].licenseStatus IN
    IF ls.isPro THEN [w EXCEPT !.ret = TRUE]
    ELSE IF ls.remainingFiles > 0
    THEN LET w1 == [w EXCEPT !.securityManager[t].licenseStatus.remainingFiles = @ - 1]
         IN  IF ~w1.localStorage.counter.present THEN [w1 EXCEPT !.exc = TRUE]
             ELSE [w1 EXCEPT !.localStorage.counter.count = @ + 1, !.ret = TRUE]
    ELSE [w EXCEPT !.ret = FALSE]

\* calculatedCheck for the payloads of the keys tried, computed once
CheckTable ==
    [payload \in {Payload(key) : key \in {k \in Keys : WellFormed(k)}} |->
        CalculatedCheck(payload)]

ChecksumIgnored(key) == TRUE

\* check !== calculatedCheck
ChecksumMatches(key) == Part(key, 4) = CheckTable[Payload(key)]

\* the checks of _validateLicenseKey that read no storage, in their order:
\* the one that returns false, or "none"
FailsBeforeReplay(key) ==
    IF ~WellFormed(key) THEN "shape"
    ELSE IF ~ChecksumMatches(key) THEN "checksum"
    ELSE IF ~InTimeWindow(ParseInt16(Part(key, 2)), now) THEN "time"
    ELSE "none"

NeverUsed(usedKeys, key) == FALSE

\* usedKeys.includes(key)
AlreadyUsed(usedKeys, key) == InSeq(usedKeys, key)

\* activateLicense resolves false
ResolveFalse(w, t, why) ==
    [w EXCEPT !.securityManager[t].activation = NoActivation,
              !.securityManager[t].result =
                  [key |-> w.securityManager[t].activation.key, success |-> FALSE,
                   failedAt |-> why, at |-> now]]

\* _validateLicenseKey up to and with JSON.parse(localStorage.getItem(
\* 'localseal_used_keys') || '[]')
ValidateRead(w, t) ==
    LET key == w.securityManager[t].activation.key IN
    IF FailsBeforeReplay(key) # "none" THEN ResolveFalse(w, t, FailsBeforeReplay(key))
    ELSE [w EXCEPT !.securityManager[t].activation.pc = "read",
                   !.securityManager[t].activation.usedKeys = w.localStorage.usedKeys]

\* _validateLicenseKey from usedKeys.includes(key) on, and the rest of
\* activateLicense's timer: the key is pushed and the list stored, the
\* license stored, licenseStatus replaced, true resolved; the page then
\* awaits checkLicense again.
ValidateWrite(w, t) ==
    LET key == w.securityManager[t].activation.key
        usedKeys == w.securityManager[t].activation.usedKeys
    IN  IF AlreadyUsed(usedKeys, key) THEN ResolveFalse(w, t, "replay")
        ELSE [w EXCEPT
                 !.localStorage.usedKeys = Append(usedKeys, key),
                 !.localStorage.license =
                     [present |-> TRUE, key |-> key,
                      expirationDate |-> OneYearLater(now)],
                 !.securityManager[t].licenseStatus = ProStatus(OneYearLater(now), key),
                 !.securityManager[t].activation = NoActivation,
                 !.securityManager[t].activated = TRUE,
                 !.securityManager[t].result =
                     [key |-> key, success |-> TRUE, failedAt |-> "none", at |-> now],
                 !.accepted = Append(@, key),
                 !.app[t].recheck = TRUE]

ValidateRecordsFirst(w, t) ==
    LET w0 == [w EXCEPT !.localStorage.usedKeys =
                            Append(@, w.securityManager[t].activation.key)]
        w1 == ValidateRead(w0, t)
    IN  IF w1.securityManager[t].activation.pc = "read" THEN ValidateWrite(w1, t) ELSE w1

\* the timer of activateLicense as one step of the event loop
ValidateLicenseKey(w, t) ==
    LET w1 == ValidateRead(w, t)
    IN  IF w1.securityManager[t].activation.pc = "read" THEN ValidateWrite(w1, t) ELSE w1

\* file.type.startsWith('image/') || file.type === 'application/pdf'
TypeAccepted(file) == file.type \in {"image/png", "image/jpeg", "application/pdf"}

RECURSIVE HandleLoopNoBreak(_, _, _)
HandleLoopNoBreak(w, t, i) ==
    IF i > Len(w.app[t].files) THEN [w EXCEPT !.app[t].pc = "idle", !.app[t].i = i]
    ELSE LET file == w.app[t].files[i] IN
         IF ~TypeAccepted(file) \/ file.size > w.app[t].licenseStatus.maxFileSize
         THEN HandleLoopNoBreak([w EXCEPT !.app[t].rejected = @ \cup {i}], t, i + 1)
         ELSE LET c == ConsumeFileCredit(w, t)
                  c1 == [c EXCEPT !.ret = FALSE, !.exc = FALSE, !.app[t].i = i]
              IN  IF ~c.ret
                  THEN HandleLoopNoBreak([c1 EXCEPT !.app[t].refused = @ \cup {i}], t, i + 1)
                  ELSE [c1 EXCEPT !.app[t].pc = "processFile",
                                  !.app[t].credited = @ \cup {i},
                                  !.app[t].invoked = @ \cup {i}]

SkippedOne(files, i) == 1

\* skippedCount += (files.length - i), i being the code's index from 0
Skipped(files, i) == Len(files) - (i - 1)

\* handleFiles: the loop from file i until it awaits processFile, breaks on
\* the daily limit, or has gone through the files.
RECURSIVE HandleLoop(_, _, _)
HandleLoop(w, t, i) ==
    IF i > Len(w.app[t].files) THEN [w EXCEPT !.app[t].pc = "idle", !.app[t].i = i]
    ELSE LET file == w.app[t].files[i] IN
         IF ~TypeAccepted(file) \/ file.size > w.app[t].licenseStatus.maxFileSize
         THEN HandleLoop([w EXCEPT !.app[t].rejected = @ \cup {i},
                                   !.app[t].errorCount = @ + 1], t, i + 1)
         ELSE LET c == ConsumeFileCredit(w, t)
                  consumed ==
                      \/ c.securityManager[t].licenseStatus.remainingFiles
                             # w.securityManager[t].licenseStatus.remainingFiles
                      \/ c.localStorage.counter # w.localStorage.counter
                  c1 == [c EXCEPT !.ret = FALSE, !.exc = FALSE, !.app[t].i = i,
                                  !.app[t].credited =
                                      IF consumed THEN @ \cup {i} ELSE @]
              IN  IF c.exc THEN [c1 EXCEPT !.app[t].pc = "threw"]
                  ELSE IF ~c.ret
                  THEN [c1 EXCEPT !.app[t].pc = "idle", !.app[t].refused = @ \cup {i},
                                  !.app[t].skippedCount =
                                      @ + Skipped(w.app[t].files, i)]
                  ELSE [c1 EXCEPT !.app[t].pc = "processFile",
                                  !.app[t].invoked = @ \cup {i}]

(***************************************************************************)
(* Actions of the site.                                                    *)
(***************************************************************************)
\* The page is loaded (again): a new SecurityManager, nothing initialized.
LoadPage(t) ==
    /\ app[t].ready
    /\ CommitSite([Site EXCEPT !.securityManager[t] = NewSecurityManager,
                               !.app[t] = NewApp])

\* The initialization's checkLicense resolves; the handlers are installed.
InitializeApp(t) ==
    /\ ~app[t].ready
    /\ CommitSite([CheckLicense(Site, t) EXCEPT !.app[t].ready = TRUE])

\* The buy-license button: activateLicense(key) starts its timer.
ActivateLicense(t, key) ==
    /\ app[t].ready
    /\ securityManager[t].activation.pc = "idle"
    /\ ~app[t].recheck
    /\ CommitSite([Site EXCEPT !.securityManager[t].activation =
                                   [pc |-> "timer", key |-> key, usedKeys |-> <<>>]])

\* The timer of activateLicense fires.
ActivationTimer(t) ==
    /\ securityManager[t].activation.pc = "timer"
    /\ CommitSite(ValidateLicenseKey(Site, t))

\* The same timer in a page whose accesses to the storage are not atomic
\* with respect to the other pages: first the read of the used keys ...
ActivationReads(t) ==
    /\ securityManager[t].activation.pc = "timer"
    /\ CommitSite(ValidateRead(Site, t))

\* ... then the test and the writes.
ActivationWrites(t) ==
    /\ securityManager[t].activation.pc = "read"
    /\ CommitSite(ValidateWrite(Site, t))

\* After a successful activation: licenseStatus = await checkLicense()
RecheckLicense(t) ==
    /\ app[t].recheck
    /\ CommitSite([CheckLicense(Site, t) EXCEPT !.app[t].recheck = FALSE])

\* Files are dropped or chosen: handleFiles(files) up to its first await.
HandleFiles(t, files) ==
    /\ app[t].ready
    /\ app[t].pc \in {"idle", "threw"}
    /\ CommitSite(HandleLoop([Site EXCEPT !.app[t].files = files,
                                          !.app[t].invoked = {},
                                          !.app[t].credited = {},
                                          !.app[t].refused = {},
                                          !.app[t].rejected = {},
                                          !.app[t].successCount = 0,
                                          !.app[t].errorCount = 0,
                                          !.app[t].skippedCount = 0,
                                          !.app[t].resolved = {}], t, 1))

\* engine.processFile settles: successCount++ after addToGallery if it
\* resolved, errorCount++ in the catch block if it rejected; the loop goes
\* on.
ProcessFileSettles(t, ok) ==
    /\ app[t].pc = "processFile"
    /\ CommitSite(HandleLoop(
           IF ok THEN [Site EXCEPT !.app[t].successCount = @ + 1,
                                   !.app[t].resolved = @ \cup {app[t].i}]
           ELSE [Site EXCEPT !.app[t].errorCount = @ + 1], t, app[t].i + 1))

\* Time passes.
Tick(t) ==
    /\ t \in Clock
    /\ t > now
    /\ now' = t
    /\ UNCHANGED <<securityManager, localStorage, app, accepted>>
    /\ UNCHANGED engineVars
    /\ UNCHANGED workerVars
    /\ UNCHANGED pixelVars

\* resetLicense
ResetLicense(w, t) ==
    [w EXCEPT !.localStorage.license = NoLicense,
              !.securityManager[t].licenseStatus = FreeStatus]

\* The operations of a SecurityManager called one by one, by a user without
\* a license and within one day.  new SecurityManager(): the count of the
\* credits granted so far is carried over, it is the user's and not the
\* object's.
ManagerConstruct(t) ==
    CommitSite([Site EXCEPT !.securityManager[t] =
                                [NewSecurityManager EXCEPT
                                    !.granted = securityManager[t].granted]])

\* await checkLicense()
ManagerCheckLicense(t) == CommitSite(CheckLicense(Site, t))

\* consumeFileCredit(), returning true or false or throwing
ManagerConsumeFileCredit(t) ==
    /\ securityManager[t].granted <= MaxFilesPerDay
    /\ LET c == ConsumeFileCredit(Site, t)
       IN  CommitSite([c EXCEPT !.ret = FALSE, !.exc = FALSE,
                                !.securityManager[t].granted =
                                    IF c.ret /\ ~c.exc THEN @ + 1 ELSE @])

\* await activateLicense(key) with a key that is turned down
ManagerActivateLicense(t, key) ==
    /\ FailsBeforeReplay(key) # "none"
    /\ CommitSite(ValidateLicenseKey(
           [Site EXCEPT !.securityManager[t].activation =
                            [pc |-> "timer", key |-> key, usedKeys |-> <<>>]], t))

\* resetLicense()
ManagerResetLicense(t) == CommitSite(ResetLicense(Site, t))

\* Nothing of the site is running (the engine on its own).
SiteIdle ==
    /\ securityManager = [t \in Tabs |-> NewSecurityManager]
    /\ localStorage = EmptyStorage
    /\ app = [t \in Tabs |-> NewApp]
    /\ accepted = <<>>
    /\ now = IssuedMinutes

(***************************************************************************)
(* ImageService.blurRegions and _pixelate on the pixels of a canvas.       *)
(* A pixel is [r, g, b, a]; the data of a width x height buffer is indexed *)
(* by y * width + x (the code's index divided by 4).                       *)
(***************************************************************************)
ImageWidth == 3
ImageHeight == 3

\* blurIntensity ranges over 1..MaxBlockSize
MaxBlockSize == 3

\* the boxes of one call of blurRegions, and the calls made on one canvas
MaxBoxes == 2
MaxBlurCalls == 2

TransparentBlack == [r |-> 0, g |-> 0, b |-> 0, a |-> 0]

\* The canvas after initCanvas: the image drawn, every pixel different from
\* the others in every channel.
DrawnImage ==
    [width |-> ImageWidth, height |-> ImageHeight,
     data |-> [k \in 0..(ImageWidth * ImageHeight - 1) |->
                  [r |-> 4 * k + 1, g |-> 4 * k + 2, b |-> 4 * k + 3, a |-> 200 + k]]]

Box(x0, y0, x1, y1) == [x0 |-> x0, y0 |-> y0, x1 |-> x1, y1 |-> y1]

\* Boxes handed to blurRegions: inside the image (overlapping, not aligned
\* on blocks, one pixel), partly or wholly outside it, and of width 0.
Boxes ==
    { Box(0, 0, 2, 2), Box(1, 1, 3, 3), Box(0, 0, 3, 3), Box(2, 0, 3, 1),
      Box(0, 2, 3, 3), Box(1, 0, 3, 2),
      Box(-1, 0, 1, 2), Box(2, 2, 4, 4), Box(3, 0, 5, 2),
      Box(1, 1, 1, 2) }

BoxLists == {q \in SeqsUpTo(Boxes, MaxBoxes) : q # <<>>}

\* ctx.getImageData(sx, sy, sw, sh): IndexSizeError when sw or sh is 0;
\* pixels outside the canvas read as transparent black
GetImageData(canvas, sx, sy, sw, sh) ==
    IF sw = 0 \/ sh = 0
    THEN [threw |-> TRUE, width |-> 0, height |-> 0, data |-> <<>>]
    ELSE [threw |-> FALSE, width |-> sw, height |-> sh,
          data |-> [k \in 0..(sw * sh - 1) |->
                       LET x == sx + (k % sw)
                           y == sy + (k \div sw)
                       IN  IF /\ x >= 0 /\ x < canvas.width
                              /\ y >= 0 /\ y < canvas.height
                           THEN canvas.data[y * canvas.width + x]
                           ELSE TransparentBlack]]

\* _pixelate reading the channels of data[idx] in another order
FillBlockRotated(data, width, height, pixelSize, x, y) ==
    LET idx == y * width + x IN
    [k \in DOMAIN data |->
        LET kx == k % width
            ky == k \div width
        IN  IF /\ kx >= x /\ kx < x + pixelSize
               /\ ky >= y /\ ky < y + pixelSize
            THEN [r |-> data[idx].g, g |-> data[idx].b, b |-> data[idx].r,
                  a |-> data[k].a]
            ELSE data[k]]

\* _pixelate writing data[i + 3] as well
FillBlockWithAlpha(data, width, height, pixelSize, x, y) ==
    LET idx == y * width + x IN
    [k \in DOMAIN data |->
        LET kx == k % width
            ky == k \div width
        IN  IF /\ kx >= x /\ kx < x + pixelSize
               /\ ky >= y /\ ky < y + pixelSize
            THEN data[idx]
            ELSE data[k]]

\* the two inner loops of _pixelate: the block at (x, y) takes r, g, b of
\* data[idx], alpha stays
FillBlock(data, width, height, pixelSize, x, y) ==
    LET idx == y * width + x IN
    [k \in DOMAIN data |->
        LET kx == k % width
            ky == k \div width
        IN  IF /\ kx >= x /\ kx < x + pixelSize
               /\ ky >= y /\ ky < y + pixelSize
            THEN [r |-> data[idx].r, g |-> data[idx].g, b |-> data[idx].b,
                  a |-> data[k].a]
            ELSE data[k]]

\* the two outer loops of _pixelate, from block (x, y) on
RECURSIVE PixelateFrom(_, _, _, _, _, _)
PixelateFrom(data, width, height, pixelSize, x, y) ==
    IF y >= height THEN data
    ELSE IF x >= width THEN PixelateFrom(data, width, height, pixelSize, 0, y + pixelSize)
    ELSE PixelateFrom(FillBlock(data, width, height, pixelSize, x, y),
                      width, height, pixelSize, x + pixelSize, y)

\* _pixelate(imageData, pixelSize)
Pixelate(imageData, pixelSize) ==
    [imageData EXCEPT !.data = PixelateFrom(imageData.data, imageData.width,
                                            imageData.height, pixelSize, 0, 0)]

\* ctx.putImageData(imageData, dx, dy): what falls outside the canvas is
\* dropped
PutImageData(canvas, imageData, dx, dy) ==
    [canvas EXCEPT !.data =
        [k \in DOMAIN canvas.data |->
            LET x == k % canvas.width
                y == k \div canvas.width
            IN  IF /\ x >= dx /\ x < dx + imageData.width
                   /\ y >= dy /\ y < dy + imageData.height
                THEN imageData.data[(y - dy) * imageData.width + (x - dx)]
                ELSE canvas.data[k]]]

\* the callback of boxes.forEach in blurRegions; c is [canvas, threw]
BlurBox(c, bbox, blurIntensity) ==
    LET width == bbox.x1 - bbox.x0
        height == bbox.y1 - bbox.y0
        imageData == GetImageData(c.canvas, bbox.x0, bbox.y0, width, height)
    IN  IF imageData.threw THEN [c EXCEPT !.threw = TRUE]
        ELSE [c EXCEPT !.canvas = PutImageData(c.canvas, Pixelate(imageData, blurIntensity),
                                               bbox.x0, bbox.y0)]

\* boxes.forEach(...): an exception ends the loop
RECURSIVE ForEachBox(_, _, _)
ForEachBox(c, boxes, blurIntensity) ==
    IF boxes = <<>> \/ c.threw THEN c
    ELSE ForEachBox(BlurBox(c, Head(boxes), blurIntensity), Tail(boxes), blurIntensity)

\* blurRegions(boxes, blurIntensity) on a canvas that is initialized
BlurRegionsOn(canvas, boxes, blurIntensity) ==
    ForEachBox([canvas |-> canvas, threw |-> FALSE], boxes, blurIntensity)

\* _pixelate not called: pc is where its loops are, y and x their counters
NoLoop ==
    [pc |-> "idle", width |-> 0, height |-> 0, pixelSize |-> 0, y |-> 0, x |-> 0,
     data |-> <<>>]

\* No canvas is looked at pixel by pixel.
PixelsIdle ==
    redaction = [canvas |-> DrawnImage, before |-> DrawnImage, history |-> <<>>,
                 blurIntensity |-> 1, threw |-> FALSE, pixelate |-> NoLoop]

(***************************************************************************)
(* WorkerManager (main thread) and ocr.worker.js (the worker).  The engine *)
(* variables are those of the engine the worker creates.                   *)
(***************************************************************************)
\* The number of Workers a WorkerManager creates over its life.
MaxInits == 1

\* interrupted: the runs that were in flight when terminate was called
\* commanded: per call slot, the licenseStatus of the 'process' command
\* that started the run
NoWorker ==
    [alive |-> FALSE, loaded |-> FALSE, engine |-> FALSE, closing |-> FALSE, pc |-> "idle",
     interrupted |-> {},
     commanded |-> [r \in Runs |-> NullLicense]]

\* new Worker(workerPath, { type: 'module' })
NewWorker == [NoWorker EXCEPT !.alive = TRUE]

\* new WorkerManager(workerPath); posted counts the commands posted, last is
\* what the last call of processFile or activateLicense did, onComplete and
\* onError count the calls of these callbacks.
NewWorkerManager ==
    [worker |-> FALSE, isReady |-> FALSE, readyHandler |-> FALSE, inits |-> 0,
     posted |-> 0, last |-> [op |-> "none", threw |-> FALSE],
     onComplete |-> 0, onError |-> 0]

WorkerIdle ==
    /\ workerManager = NewWorkerManager
    /\ worker = NoWorker
    /\ inbox = <<>>
    /\ outbox = <<>>

\* { action, payload: { file, options, licenseStatus } }
Message(action, file, options, ls) ==
    [action |-> action, file |-> file, options |-> options, licenseStatus |-> ls]

NoFile == [type |-> "", ext |-> ""]
NoOptions ==
    [anonymize |-> FALSE, extractTextOnly |-> FALSE,
     blurIntensity |-> DefaultBlurIntensity]

\* postMessage in the worker: nothing reaches the main thread once it has
\* called worker.terminate()
PostMessage(type) == IF worker.closing THEN outbox ELSE Append(outbox, type)

AlwaysReady(wm) == TRUE

\* if (!this.isReady) throw new Error('Worker non initialisé')
IsReady(wm) == wm.isReady

\* new LocalSealEngine(licenseStatus) in the worker, where there is no
\* window and so no window.nlp
NewEngine(arg) ==
    /\ licenseStatus' = Constructor(arg)
    /\ state' = [currentStep |-> "null", progress |-> D0, isProcessing |-> FALSE]
    /\ imageService' = [canvas |-> NoCanvas, ctx |-> NoCanvas]
    /\ buffers' = [r \in Runs |-> NoPixels]
    /\ ocrService' = [isInitialized |-> FALSE, worker |-> 0]
    /\ run' = [r \in Runs |-> IdleRun]
    /\ log' = [r \in Runs |-> <<>>]
    /\ nlpLoaded' = FALSE
    /\ UNCHANGED calls

\* the end of engine.destroy() in the 'terminate' case, engine = null and
\* self.close(): the worker runs nothing after this task
DestroyAndClose(ocr) ==
    /\ ocrService' = ocr
    /\ imageService' = Destroy(imageService)
    /\ buffers' = [c \in Runs |->
                      IF c = Destroy(imageService).canvas THEN buffers[c] ELSE NoPixels]
    /\ worker' = [worker EXCEPT !.alive = FALSE, !.engine = FALSE, !.pc = "idle"]
    /\ UNCHANGED <<licenseStatus, state, nlpLoaded, run, log, calls>>

\* WorkerManager.init up to the return of its promise: the Worker is
\* created, the listeners installed and 'init' posted.
WorkerManagerInit(ls) ==
    /\ ~workerManager.worker
    /\ workerManager.inits < MaxInits
    /\ workerManager' = [workerManager EXCEPT !.worker = TRUE, !.readyHandler = TRUE,
                                              !.inits = @ + 1]
    /\ worker' = NewWorker
    /\ inbox' = <<Message("init", NoFile, NoOptions, ls)>>
    /\ outbox' = <<>>
    /\ UNCHANGED engineVars
    /\ UNCHANGED siteVars
    /\ UNCHANGED pixelVars

\* The module of the worker has run: its listener is installed and
\* postMessage({ type: 'loaded' }) done.
WorkerLoaded ==
    /\ worker.alive
    /\ ~worker.loaded
    /\ worker' = [worker EXCEPT !.loaded = TRUE]
    /\ outbox' = PostMessage("loaded")
    /\ UNCHANGED <<workerManager, inbox>>
    /\ UNCHANGED engineVars
    /\ UNCHANGED siteVars
    /\ UNCHANGED pixelVars

\* A 'loaded' or 'ready' message reaches the main thread: readyHandler, if
\* still installed, sets isReady, removes itself and resolves init.
ReceiveReady ==
    /\ outbox # <<>>
    /\ Head(outbox) \in {"loaded", "ready"}
    /\ outbox' = Tail(outbox)
    /\ workerManager' = IF workerManager.readyHandler
                        THEN [workerManager EXCEPT !.isReady = TRUE,
                                                   !.readyHandler = FALSE]
                        ELSE workerManager
    /\ UNCHANGED <<worker, inbox>>
    /\ UNCHANGED engineVars
    /\ UNCHANGED siteVars
    /\ UNCHANGED pixelVars

\* _handleMessage for 'complete' and 'result' (onComplete) and for 'error'
\* (onError)
HandleMessage ==
    /\ outbox # <<>>
    /\ Head(outbox) \in {"complete", "result", "error"}
    /\ outbox' = Tail(outbox)
    /\ workerManager' = IF Head(outbox) = "error"
                        THEN [workerManager EXCEPT !.onError = @ + 1]
                        ELSE [workerManager EXCEPT !.onComplete = @ + 1]
    /\ UNCHANGED <<worker, inbox>>
    /\ UNCHANGED engineVars
    /\ UNCHANGED siteVars
    /\ UNCHANGED pixelVars

\* WorkerManager.processFile and WorkerManager.activateLicense
WorkerManagerPost(op, msg) ==
    /\ workerManager.posted < MaxCalls
    /\ IF ~IsReady(workerManager)
       THEN /\ workerManager' = [workerManager EXCEPT
                                    !.last = [op |-> op, threw |-> TRUE]]
            /\ UNCHANGED inbox
       ELSE /\ workerManager' = [workerManager EXCEPT
                                    !.posted = @ + 1,
                                    !.last = [op |-> op, threw |-> FALSE]]
            /\ inbox' = Append(inbox, msg)
    /\ UNCHANGED <<worker, outbox>>
    /\ UNCHANGED engineVars
    /\ UNCHANGED siteVars
    /\ UNCHANGED pixelVars

WorkerManagerProcessFile(file, options, ls) ==
    WorkerManagerPost("processFile", Message("process", file, options, ls))

WorkerManagerActivateLicense ==
    WorkerManagerPost("activateLicense",
                      Message("activateLicense", NoFile, NoOptions, NullLicense))

\* WorkerManager.terminate: 'terminate' is posted and worker.terminate()
\* called at once.
WorkerManagerTerminate ==
    /\ workerManager.worker
    /\ inbox' = Append(inbox, Message("terminate", NoFile, NoOptions, NullLicense))
    /\ worker' = [worker EXCEPT !.closing = TRUE,
                                !.interrupted = {r \in Runs : InFlight(r)}]
    /\ workerManager' = [workerManager EXCEPT !.worker = FALSE, !.isReady = FALSE]
    /\ outbox' = <<>>
    /\ UNCHANGED engineVars
    /\ UNCHANGED siteVars
    /\ UNCHANGED pixelVars

\* worker.terminate() takes effect: whatever the worker was doing stops.
WorkerKilled ==
    /\ worker.alive
    /\ worker.closing
    /\ worker' = [worker EXCEPT !.alive = FALSE]
    /\ UNCHANGED <<workerManager, inbox, outbox>>
    /\ UNCHANGED engineVars
    /\ UNCHANGED siteVars
    /\ UNCHANGED pixelVars

\* The worker's message listener, case 'init'.
HandleInit ==
    /\ worker.alive /\ worker.loaded
    /\ inbox # <<>> /\ Head(inbox).action = "init"
    /\ IF worker.engine THEN UNCHANGED engineVars
       ELSE NewEngine(Head(inbox).licenseStatus)
    /\ worker' = [worker EXCEPT !.engine = TRUE]
    /\ inbox' = Tail(inbox)
    /\ outbox' = PostMessage("ready")
    /\ UNCHANGED workerManager
    /\ UNCHANGED siteVars
    /\ UNCHANGED pixelVars

\* case 'process': engine.processFile(file, options) up to its first await
\* (the engine exists: 'init' is the first message a worker is sent, so
\* `if (!engine) await initEngine(...)` is never taken and the licenseStatus
\* of the payload is not looked at)
HandleProcess(r) ==
    /\ worker.alive /\ worker.loaded
    /\ inbox # <<>> /\ Head(inbox).action = "process"
    /\ worker.engine
    /\ ProcessFile(r, Head(inbox).file, Head(inbox).options)
    /\ inbox' = Tail(inbox)
    /\ worker' = [worker EXCEPT !.commanded[r] = Head(inbox).licenseStatus]
    /\ outbox' = IF worker.closing THEN outbox
                 ELSE outbox \o TerminalMessages(log'[r], run'[r].pc)
    /\ UNCHANGED workerManager

\* case 'terminate': await engine.destroy(), up to the await of Tesseract's
\* worker.terminate() if there is such a worker, to the end otherwise.
HandleTerminate ==
    /\ worker.alive /\ worker.loaded
    /\ inbox # <<>> /\ Head(inbox).action = "terminate"
    /\ inbox' = Tail(inbox)
    /\ IF worker.engine /\ ocrService.worker # 0
       THEN /\ worker' = [worker EXCEPT !.pc = "ocrTerminate"]
            /\ UNCHANGED engineVars
       ELSE IF worker.engine
       THEN DestroyAndClose(ocrService)
       ELSE /\ worker' = [worker EXCEPT !.alive = FALSE]
            /\ UNCHANGED engineVars
    /\ UNCHANGED <<workerManager, outbox>>
    /\ UNCHANGED siteVars
    /\ UNCHANGED pixelVars

\* Tesseract's worker.terminate() settles: the rest of OCRService.terminate
\* and of engine.destroy(), engine = null, self.close()
TerminateSettles ==
    /\ worker.alive
    /\ worker.pc = "ocrTerminate"
    /\ DestroyAndClose([isInitialized |-> FALSE, worker |-> 0])
    /\ UNCHANGED <<workerManager, inbox, outbox>>
    /\ UNCHANGED siteVars
    /\ UNCHANGED pixelVars

\* default: console.warn
HandleUnknown ==
    /\ worker.alive /\ worker.loaded
    /\ inbox # <<>> /\ Head(inbox).action = "activateLicense"
    /\ inbox' = Tail(inbox)
    /\ UNCHANGED <<workerManager, worker, outbox>>
    /\ UNCHANGED engineVars
    /\ UNCHANGED siteVars
    /\ UNCHANGED pixelVars

\* The worker's event loop runs a task of its engine.
WorkerRunning == worker.alive /\ worker.engine

Init ==
    /\ SiteIdle
    /\ WorkerIdle
    /\ PixelsIdle
    /\ licenseStatus \in {Constructor(a) : a \in LicenseArgs}
    /\ state = [currentStep |-> "null", progress |-> D0, isProcessing |-> FALSE]
    /\ imageService = [canvas |-> NoCanvas, ctx |-> NoCanvas]
    /\ buffers = [r \in Runs |-> NoPixels]
    /\ ocrService = [isInitialized |-> FALSE, worker |-> 0]
    /\ nlpLoaded \in BOOLEAN
    /\ run = [r \in Runs |-> IdleRun]
    /\ log = [r \in Runs |-> <<>>]
    /\ calls = 0

\* handleFiles' loop: engine.licenseStatus = licenseStatus, then
\* await engine.processFile(file, options), one file after the other.
BatchConfigure(ls) == NoRunInFlight /\ SetLicenseStatus(ls)

BatchProcessFile(r, file, options) ==
    /\ NoRunInFlight
    /\ ProcessFile(r, file, options)
    /\ UNCHANGED workerVars

\* The engine driven by one batch loop: every run is awaited before the next.
Next ==
    \/ \E r \in Runs, f \in Files, o \in Options : BatchProcessFile(r, f, o)
    \/ \E r \in Runs, ok \in BOOLEAN : LoadImageSettles(r, ok)
    \/ \E r \in Runs, ok \in BOOLEAN : CreateWorkerSettles(r, ok)
    \/ \E r \in Runs, res \in OcrResults : RecognizeSettles(r, TRUE, res)
    \/ \E r \in Runs : RecognizeSettles(r, FALSE, NoOcr)
    \/ \E r \in Runs : ExtractTextReturns(r)
    \/ \E r \in Runs, ok \in BOOLEAN : ExportSettles(r, ok)
    \/ \E r \in Runs, ok \in BOOLEAN : ThumbnailSettles(r, ok)
    \/ \E ls \in LicenseObjects : BatchConfigure(ls)

Spec == Init /\ [][Next]_vars

\* The engine asked to anonymize, with options objects that name a block
\* size, on pages of all kinds.
AnonymizeOcrResults == OcrResults \cup MixedOcrResults

NextAnonymize ==
    \/ \E r \in Runs, f \in Files, o \in GivenOptions : BatchProcessFile(r, f, o)
    \/ \E r \in Runs, ok \in BOOLEAN : LoadImageSettles(r, ok)
    \/ \E r \in Runs, ok \in BOOLEAN : CreateWorkerSettles(r, ok)
    \/ \E r \in Runs, res \in AnonymizeOcrResults : RecognizeSettles(r, TRUE, res)
    \/ \E r \in Runs : RecognizeSettles(r, FALSE, NoOcr)
    \/ \E r \in Runs : ExtractTextReturns(r)
    \/ \E r \in Runs, ok \in BOOLEAN : ExportSettles(r, ok)
    \/ \E r \in Runs, ok \in BOOLEAN : ThumbnailSettles(r, ok)
    \/ \E ls \in LicenseObjects : BatchConfigure(ls)

SpecAnonymize == Init /\ [][NextAnonymize]_vars

\* The engine with callers that do not wait for each other (two drops, two
\* process commands): a call may start while another run is suspended.
OverlapFiles == {f \in Files : f.type = ""}
OverlapOptions == {o \in Options : o.anonymize # o.extractTextOnly}
OverlapOcrResults == {o \in OcrResults : o.text \in {"facture", "Marie Dupont"}}

NextOverlap ==
    \/ \E r \in Runs, f \in OverlapFiles, o \in OverlapOptions :
           ProcessFile(r, f, o) /\ UNCHANGED workerVars
    \/ \E r \in Runs, ok \in BOOLEAN : LoadImageSettles(r, ok)
    \/ \E r \in Runs, ok \in BOOLEAN : CreateWorkerSettles(r, ok)
    \/ \E r \in Runs, res \in OverlapOcrResults : RecognizeSettles(r, TRUE, res)
    \/ \E r \in Runs : RecognizeSettles(r, FALSE, NoOcr)
    \/ \E r \in Runs : ExtractTextReturns(r)
    \/ \E r \in Runs, ok \in BOOLEAN : ExportSettles(r, ok)
    \/ \E r \in Runs, ok \in BOOLEAN : ThumbnailSettles(r, ok)

SpecOverlap == Init /\ [][NextOverlap]_vars

\* The engine as constructed, untouched (the site on its own).
EngineIdle ==
    /\ licenseStatus = Constructor(NullLicense)
    /\ state = [currentStep |-> "null", progress |-> D0, isProcessing |-> FALSE]
    /\ imageService = [canvas |-> NoCanvas, ctx |-> NoCanvas]
    /\ buffers = [r \in Runs |-> NoPixels]
    /\ ocrService = [isInitialized |-> FALSE, worker |-> 0]
    /\ nlpLoaded = TRUE
    /\ run = [r \in Runs |-> IdleRun]
    /\ log = [r \in Runs |-> <<>>]
    /\ calls = 0

\* One page on an origin whose storage is empty.
InitSite ==
    /\ EngineIdle
    /\ WorkerIdle
    /\ PixelsIdle
    /\ securityManager = [t \in Tabs |-> NewSecurityManager]
    /\ localStorage = EmptyStorage
    /\ app = [t \in Tabs |-> NewApp]
    /\ accepted = <<>>
    /\ now \in Clock

\* The one page of SpecLicense and SpecSite.
Page == 1

\* The license of one page: activations of any key at any reading of the
\* clock, reloads.
NextLicense ==
    \/ LoadPage(Page)
    \/ InitializeApp(Page)
    \/ \E key \in Keys : ActivateLicense(Page, key)
    \/ ActivationTimer(Page)
    \/ RecheckLicense(Page)
    \/ \E t \in Clock : Tick(t)

SpecLicense == InitSite /\ [][NextLicense]_vars

\* The page with its batches of files; one key that validates, and the clock
\* at the issue of the key, the day after, and at a present-day reading.
SiteKeys == {KeyOf(PayloadIssued, CalculatedCheck(PayloadIssued))}
SiteClock == {IssuedMinutes, IssuedMinutes + 1440, 29900000}

InitQuota ==
    /\ EngineIdle
    /\ WorkerIdle
    /\ PixelsIdle
    /\ securityManager = [t \in Tabs |-> NewSecurityManager]
    /\ localStorage = EmptyStorage
    /\ app = [t \in Tabs |-> NewApp]
    /\ accepted = <<>>
    /\ now = IssuedMinutes

NextSite ==
    \/ LoadPage(Page)
    \/ InitializeApp(Page)
    \/ \E key \in SiteKeys : ActivateLicense(Page, key)
    \/ ActivationTimer(Page)
    \/ RecheckLicense(Page)
    \/ \E files \in Batches : HandleFiles(Page, files)
    \/ \E ok \in BOOLEAN : ProcessFileSettles(Page, ok)
    \/ \E t \in SiteClock : Tick(t)

SpecSite == InitQuota /\ [][NextSite]_vars

\* A SecurityManager used directly, without a license, on one day.
NextManager ==
    \/ ManagerConstruct(Page)
    \/ ManagerCheckLicense(Page)
    \/ ManagerConsumeFileCredit(Page)
    \/ \E key \in Keys : ManagerActivateLicense(Page, key)
    \/ ManagerResetLicense(Page)

SpecManager == InitQuota /\ [][NextManager]_vars

\* Several pages on the origin, each in its own process: between the read
\* and the write of the used keys by one page another page may run.
InitPages ==
    /\ EngineIdle
    /\ WorkerIdle
    /\ PixelsIdle
    /\ securityManager = [t \in Tabs |-> NewSecurityManager]
    /\ localStorage = EmptyStorage
    /\ app = [t \in Tabs |-> NewApp]
    /\ accepted = <<>>
    /\ now = IssuedMinutes

NextPages ==
    \/ \E t \in Tabs : InitializeApp(t)
    \/ \E t \in Tabs, key \in Keys : ActivateLicense(t, key)
    \/ \E t \in Tabs : ActivationReads(t)
    \/ \E t \in Tabs : ActivationWrites(t)
    \/ \E t \in Tabs : RecheckLicense(t)

SpecPages == InitPages /\ [][NextPages]_vars

\* The engine inside the worker, driven by a WorkerManager.
WorkerFiles == {f \in Files : f.type = "image/png"}
WorkerOptions == {o \in Options : ~o.anonymize /\ ~o.extractTextOnly}
WorkerOcrResults == {o \in OcrResults : o.text = "facture"}

NextWorker ==
    \/ WorkerManagerInit(NullLicense)
    \/ WorkerLoaded
    \/ ReceiveReady
    \/ HandleMessage
    \/ \E f \in WorkerFiles, o \in WorkerOptions : WorkerManagerProcessFile(f, o, NullLicense)
    \/ WorkerManagerActivateLicense
    \/ WorkerManagerTerminate
    \/ WorkerKilled
    \/ HandleInit
    \/ \E r \in Runs : HandleProcess(r)
    \/ HandleTerminate
    \/ TerminateSettles
    \/ HandleUnknown
    \/ WorkerRunning /\ \E r \in Runs, ok \in BOOLEAN : LoadImageSettles(r, ok)
    \/ WorkerRunning /\ \E r \in Runs, ok \in BOOLEAN : CreateWorkerSettles(r, ok)
    \/ WorkerRunning /\ \E r \in Runs, res \in WorkerOcrResults : RecognizeSettles(r, TRUE, res)
    \/ WorkerRunning /\ \E r \in Runs : RecognizeSettles(r, FALSE, NoOcr)
    \/ WorkerRunning /\ \E r \in Runs : ExtractTextReturns(r)
    \/ WorkerRunning /\ \E r \in Runs, ok \in BOOLEAN : ExportSettles(r, ok)
    \/ WorkerRunning /\ \E r \in Runs, ok \in BOOLEAN : ThumbnailSettles(r, ok)

SpecWorker == InitQuota /\ [][NextWorker]_vars

\* The same, the main thread handing its license state to init and to each
\* process command: none, the free one, the premium one.
WorkerLicenses ==
    { NullLicense,
      [given |-> TRUE, isPro |-> FALSE, requiresWatermark |-> "true"],
      [given |-> TRUE, isPro |-> TRUE, requiresWatermark |-> "false"] }

NextWorkerLicense ==
    \/ \E ls \in WorkerLicenses : WorkerManagerInit(ls)
    \/ WorkerLoaded
    \/ ReceiveReady
    \/ HandleMessage
    \/ \E f \in WorkerFiles, o \in WorkerOptions, ls \in WorkerLicenses :
           WorkerManagerProcessFile(f, o, ls)
    \/ HandleInit
    \/ \E r \in Runs : HandleProcess(r)
    \/ WorkerRunning /\ \E r \in Runs : LoadImageSettles(r, TRUE)
    \/ WorkerRunning /\ \E r \in Runs : CreateWorkerSettles(r, TRUE)
    \/ WorkerRunning /\ \E r \in Runs, res \in WorkerOcrResults : RecognizeSettles(r, TRUE, res)
    \/ WorkerRunning /\ \E r \in Runs : ExtractTextReturns(r)
    \/ WorkerRunning /\ \E r \in Runs : ExportSettles(r, TRUE)
    \/ WorkerRunning /\ \E r \in Runs : ThumbnailSettles(r, TRUE)

SpecWorkerLicense == InitQuota /\ [][NextWorkerLicense]_vars

(***************************************************************************)
(* Calls of blurRegions on a canvas with the image drawn.                  *)
(***************************************************************************)
\* A canvas with the image drawn, and the block size of the calls to come.
InitPixels ==
    /\ EngineIdle
    /\ WorkerIdle
    /\ securityManager = [t \in Tabs |-> NewSecurityManager]
    /\ localStorage = EmptyStorage
    /\ app = [t \in Tabs |-> NewApp]
    /\ accepted = <<>>
    /\ now = IssuedMinutes
    /\ redaction \in {[canvas |-> DrawnImage, before |-> DrawnImage, history |-> <<>>,
                       blurIntensity |-> size, threw |-> FALSE, pixelate |-> NoLoop] :
                         size \in 1..MaxBlockSize}

\* imageService.blurRegions(boxes, blurIntensity) is called.
CallBlurRegions(boxes) ==
    /\ Len(redaction.history) < MaxBlurCalls
    /\ LET c == BlurRegionsOn(redaction.canvas, boxes, redaction.blurIntensity)
       IN  redaction' = [redaction EXCEPT !.canvas = c.canvas,
                                          !.before = redaction.canvas,
                                          !.history = Append(@, boxes),
                                          !.threw = c.threw]
    /\ UNCHANGED engineVars
    /\ UNCHANGED siteVars
    /\ UNCHANGED workerVars

NextPixels == \E boxes \in BoxLists : CallBlurRegions(boxes)

SpecPixels == InitPixels /\ [][NextPixels]_vars

\* _pixelate step by step, on the region of a box of the drawn image and
\* with a block size as processFile passes it on: any integer, 0 included.
PixelateSizes == 0..MaxBlockSize

RegionBoxes == {bbox \in Boxes : bbox.x0 < bbox.x1 /\ bbox.y0 < bbox.y1}

InitPixelate ==
    /\ EngineIdle
    /\ WorkerIdle
    /\ PixelsIdle
    /\ securityManager = [t \in Tabs |-> NewSecurityManager]
    /\ localStorage = EmptyStorage
    /\ app = [t \in Tabs |-> NewApp]
    /\ accepted = <<>>
    /\ now = IssuedMinutes

PixelateStep(loop) ==
    /\ redaction' = [redaction EXCEPT !.pixelate = loop]
    /\ UNCHANGED engineVars
    /\ UNCHANGED siteVars
    /\ UNCHANGED workerVars

\* _pixelate(imageData, pixelSize) is entered: let y = 0
PixelateEnter(bbox, pixelSize) ==
    /\ redaction.pixelate.pc = "idle"
    /\ LET imageData == GetImageData(redaction.canvas, bbox.x0, bbox.y0,
                                     bbox.x1 - bbox.x0, bbox.y1 - bbox.y0)
       IN  PixelateStep([pc |-> "outer", width |-> imageData.width,
                         height |-> imageData.height, pixelSize |-> pixelSize,
                         y |-> 0, x |-> 0, data |-> imageData.data])

\* for (...; y < height; ...): the test of the outer loop, then let x = 0
PixelateOuter ==
    /\ redaction.pixelate.pc = "outer"
    /\ PixelateStep(IF redaction.pixelate.y < redaction.pixelate.height
                    THEN [redaction.pixelate EXCEPT !.pc = "inner", !.x = 0]
                    ELSE [redaction.pixelate EXCEPT !.pc = "done"])

\* for (...; x < width; x += pixelSize): the test of the inner loop, its
\* body and x += pixelSize, or the end of the inner loop and y += pixelSize
PixelateInner ==
    /\ redaction.pixelate.pc = "inner"
    /\ LET loop == redaction.pixelate IN
       PixelateStep(IF loop.x < loop.width
                    THEN [loop EXCEPT !.data = FillBlock(loop.data, loop.width, loop.height,
                                                         loop.pixelSize, loop.x, loop.y),
                                      !.x = @ + loop.pixelSize]
                    ELSE [loop EXCEPT !.pc = "outer", !.y = @ + loop.pixelSize])

NextPixelate ==
    \/ \E bbox \in RegionBoxes, pixelSize \in PixelateSizes : PixelateEnter(bbox, pixelSize)
    \/ PixelateOuter
    \/ PixelateInner

\* The loops are run by one thread that does nothing else.
SpecPixelate == InitPixelate /\ [][NextPixelate]_vars /\ WF_vars(NextPixelate)

(***************************************************************************)
(* Properties.                                                             *)
(***************************************************************************)
Settled(r) == run[r].pc \in {"resolved", "rejected"}

Entries(r, kind) == SelectSeq(log[r], LAMBDA e : e.kind = kind)

Has(r, kind, name) == \E i \in 1..Len(log[r]) : log[r][i].kind = kind /\ log[r][i].name = name

Count(r, kind, name) ==
    Cardinality({i \in 1..Len(log[r]) : log[r][i].kind = kind /\ log[r][i].name = name})

Last(seq) == seq[Len(seq)]

\* The stage a progress step belongs to, in the order of section 4.5.
StageOf(step) ==
    CASE step = "mime_detection" -> 1
      [] step = "image_load" -> 2
      [] step \in {"ocr_start", "ocr_processing", "ocr_complete"} -> 3
      [] step \in {"nlp_analysis", "nlp_complete"} -> 4
      [] step \in {"blur_start", "blur_complete", "blur_skip"} -> 5
      [] step = "watermark" -> 6
      [] step = "export" -> 7
      [] step = "complete" -> 8

\* The stage an external call belongs to.
StageOfCall(call) ==
    CASE call = "loadImage" -> 2
      [] call \in {"createWorker", "recognize"} -> 3
      [] call \in {"exportAsPDF", "exportAsFile"} -> 7
      [] call = "exportAsBlob" -> 8

\* Entry i of l is a call that has not settled before entry j.
PendingAt(l, i, j) ==
    /\ i < j
    /\ l[i].kind = "call"
    /\ \A k \in (i + 1)..(j - 1) : l[k].kind # "settled"

\* C1 (as claimed): in a run with anonymize=true that found a target and in
\* which no stage failed, the progress values emitted never decrease and the
\* last progress event is step 'complete' with progress 1.0.
C1_ProgressNonDecreasing ==
    \A r \in Runs :
        (/\ run[r].pc = "resolved"
         /\ run[r].options.anonymize
         /\ ~run[r].options.extractTextOnly
         /\ run[r].nlpTotal > 0)
        => LET p == Entries(r, "progress") IN
           /\ \A i \in 1..(Len(p) - 1) : DLeq(p[i].progress, p[i + 1].progress)
           /\ Last(p).name = "complete"
           /\ Last(p).progress = D100

\* C2: within a run the stages follow each other in the fixed order
\* mime_detection, image_load, ocr, nlp_analysis, redaction, watermark,
\* export, complete; nothing of a later stage is emitted or done while an
\* external call is pending (only the OCR call reports its own progress),
\* and no call starts while another is pending.
C2_StagesSequential ==
    \A r \in Runs :
        LET l == log[r]
            p == Entries(r, "progress")
        IN  /\ \A i \in 1..(Len(p) - 1) : StageOf(p[i].name) <= StageOf(p[i + 1].name)
            /\ \A i, j \in 1..Len(l) :
                   PendingAt(l, i, j) =>
                       /\ l[j].kind \in {"progress", "settled"}
                       /\ l[j].kind = "progress" =>
                              /\ l[j].name = "ocr_processing"
                              /\ StageOfCall(l[i].name) = StageOf(l[j].name)

C2_Witness ==
    \E r \in Runs :
        /\ run[r].pc = "resolved"
        /\ Has(r, "progress", "blur_complete")
        /\ Has(r, "progress", "watermark")
        /\ Has(r, "progress", "complete")

\* C3: with extractTextOnly=true and a successful OCR the run ends right
\* after the ocr stage: it resolves with a text file, the completion channel
\* is told the recognized text, no later stage emits progress and the canvas
\* is neither redacted nor watermarked.
C3_TextOnlyStopsAfterOcr ==
    \A r \in Runs :
        (run[r].options.extractTextOnly /\ Has(r, "progress", "ocr_complete"))
        => /\ run[r].pc = "resolved"
           /\ run[r].output.kind = "text"
           /\ Last(log[r]).kind = "complete"
           /\ Last(log[r]).name = "text"
           /\ Last(log[r]).text = run[r].ocr.text
           /\ Len(Entries(r, "complete")) = 1
           /\ Last(Entries(r, "progress")).name = "ocr_complete"
           /\ \A i \in 1..Len(log[r]) :
                  /\ log[r][i].kind = "progress" => StageOf(log[r][i].name) <= 3
                  /\ log[r][i].kind = "op" => log[r][i].name = "initCanvas"

C3_Witness ==
    \E r \in Runs :
        /\ run[r].options.extractTextOnly
        /\ run[r].options.anonymize
        /\ run[r].pc = "resolved"
        /\ run[r].ocr.text = "Marie Dupont"
        /\ licenseStatus.requiresWatermark = "true"

\* C4: with anonymize=false no nlp_analysis, nlp_complete, blur_start,
\* blur_complete or blur_skip event is emitted and neither analyze nor
\* blurRegions is invoked.
C4_NoAnonymizeNoRedaction ==
    \A r \in Runs :
        ~run[r].options.anonymize
        => \A i \in 1..Len(log[r]) :
               /\ log[r][i].kind = "progress" => StageOf(log[r][i].name) \notin {4, 5}
               /\ log[r][i].kind = "op" => log[r][i].name \notin {"analyze", "blurRegions"}

C4_Witness ==
    \E r \in Runs :
        /\ ~run[r].options.anonymize
        /\ ~run[r].options.extractTextOnly
        /\ run[r].pc = "resolved"
        /\ run[r].ocr.text = "Marie Dupont"
        /\ nlpLoaded

\* C5: with anonymize=true and an analysis that finds no target, exactly one
\* blur_skip event is emitted, no blur_start or blur_complete, blurRegions is
\* not invoked, and the pixels are the same before and after the stage.
C5_ZeroTargetsSkipRedaction ==
    \A r \in Runs :
        (Has(r, "op", "analyze") /\ run[r].nlpTotal = 0)
        => /\ Count(r, "progress", "blur_skip") = 1
           /\ ~Has(r, "progress", "blur_start")
           /\ ~Has(r, "progress", "blur_complete")
           /\ ~Has(r, "op", "blurRegions")
           /\ \A i, j \in 1..Len(log[r]) :
                  (/\ log[r][i].kind = "progress" /\ log[r][i].name = "nlp_analysis"
                   /\ log[r][j].kind = "progress" /\ log[r][j].name = "blur_skip")
                  => log[r][i].pixels = log[r][j].pixels

C5_Witness ==
    \E r \in Runs :
        /\ nlpLoaded
        /\ run[r].ocr.text = "facture"
        /\ run[r].options.anonymize
        /\ Has(r, "progress", "blur_skip")
        /\ run[r].pc = "resolved"

\* C6: whenever the promise of processFile settles, on any exit path, the
\* image service holds no canvas and no context.
C6_ReleasedWhenSettled ==
    \A r \in Runs :
        Settled(r) => run[r].settledCanvas = NoCanvas /\ run[r].settledCtx = NoCanvas

C6_Witness ==
    \E r \in Runs :
        /\ run[r].pc = "rejected"
        /\ Has(r, "op", "initCanvas")
        /\ run[r].error = "Echec de l'extraction OCR"

\* C7 (as claimed): on a failing run the buffer is released before the error
\* is surfaced: no canvas is held when the error channel is notified, nor
\* when the promise rejects.
C7_ReleasedBeforeErrorSurfaced ==
    \A r \in Runs :
        /\ \A i \in 1..Len(log[r]) : log[r][i].kind = "error" => log[r][i].canvas = NoCanvas
        /\ run[r].pc = "rejected" => run[r].settledCanvas = NoCanvas

\* C7 (amended): on a failing run the error channel is notified first, with
\* the image service still holding whatever canvas it held when the stage
\* failed; the canvas is released after the notification and before the
\* promise rejects.
C7_NotifiedThenReleasedThenRejected ==
    \A r \in Runs :
        run[r].pc = "rejected"
        => /\ Len(Entries(r, "error")) = 1
           /\ Last(log[r]).kind = "error"
           /\ Last(log[r]).canvas = run[r].caughtCanvas
           /\ run[r].settledCanvas = NoCanvas
           /\ run[r].settledCtx = NoCanvas

C7_Witness ==
    \E r \in Runs :
        /\ run[r].pc = "rejected"
        /\ run[r].error = "Echec de l'export"
        /\ run[r].caughtCanvas = r
        /\ Last(log[r]).canvas = r

\* C8 (as claimed): a processFile call made while a run is in flight on the
\* same engine is rejected without starting a stage, so at most one run is
\* in flight at any time.
C8_OneRunInFlight == Cardinality({r \in Runs : InFlight(r)}) <= 1

\* C9 (as claimed): a run in flight that has loaded its canvas keeps it: the
\* image service holds that canvas until the run settles, and what the run
\* redacts, watermarks and exports is its own canvas.
C9_BufferNotShared ==
    \A r \in Runs :
        /\ (InFlight(r) /\ Has(r, "op", "initCanvas")) => imageService.canvas = r
        /\ \A i \in 1..Len(log[r]) : log[r][i].kind = "op" => log[r][i].canvas = r
        /\ run[r].output.kind = "file" => run[r].output.canvas = r

\* C10 (as claimed): a run that reaches the export stage has stamped the
\* watermark exactly when the license object it read is not premium.
C10_WatermarkIffNotPro ==
    \A r \in Runs :
        Has(r, "progress", "export")
        => (Has(r, "op", "addSmartWatermark") <=> ~run[r].licenseRead.isPro)

\* Where in log[r] the entries of a kind and name are.
Positions(r, kind, name) ==
    {i \in 1..Len(log[r]) : log[r][i].kind = kind /\ log[r][i].name = name}

\* C11: within a run addSmartWatermark is invoked at most once; it comes after
\* the redaction stage (blurRegions and every nlp_* and blur_* event) and
\* before the export stage; nothing redacts after it: the pixels the export
\* stage sees and exports are those of the 'watermark' event plus the one
\* watermark layer.
C11_WatermarkOnceAndLast ==
    \A r \in Runs :
        /\ Count(r, "op", "addSmartWatermark") <= 1
        /\ \A i \in Positions(r, "op", "addSmartWatermark") :
               /\ i > 1 /\ log[r][i - 1].kind = "progress" /\ log[r][i - 1].name = "watermark"
               /\ \A j \in 1..Len(log[r]) :
                      /\ (log[r][j].kind = "op" /\ log[r][j].name = "blurRegions") => j < i
                      /\ (log[r][j].kind = "progress" /\ StageOf(log[r][j].name) <= 5) => j < i
                      /\ (log[r][j].kind = "progress" /\ StageOf(log[r][j].name) >= 7) => j > i
                      /\ log[r][j].kind = "call" /\ StageOfCall(log[r][j].name) >= 7 => j > i
                      /\ (j > i /\ log[r][j].kind = "progress")
                         => log[r][j].pixels = [log[r][i - 1].pixels EXCEPT !.marks = @ + 1]
               /\ run[r].output.kind = "file"
                  => run[r].output.pixels = [log[r][i - 1].pixels EXCEPT !.marks = @ + 1]

C11_Witness ==
    \E r \in Runs :
        /\ run[r].pc = "resolved"
        /\ Has(r, "op", "blurRegions")
        /\ Has(r, "op", "addSmartWatermark")
        /\ run[r].output.kind = "file"
        /\ run[r].output.pixels.blurred # {}
        /\ run[r].output.pixels.marks = 1

\* The external calls of a run, as they are issued.
CallsOf(r) == Entries(r, "call")

Result == securityManager[Page].result

\* The first check a key fails, taking the checks in the order shape,
\* checksum, time window, replay, at clock reading t with the used keys given.
FirstFailing(key, usedKeys, t) ==
    IF ~WellFormed(key) THEN "shape"
    ELSE IF Part(key, 4) # CheckTable[Payload(key)] THEN "checksum"
    ELSE IF ~InTimeWindow(ParseInt16(Part(key, 2)), t) THEN "time"
    ELSE IF InSeq(usedKeys, key) THEN "replay"
    ELSE "none"

\* C12: when the validation of a key fails, activateLicense resolves false
\* and licenseStatus, the stored license and the stored used keys are what
\* they were; the check that fails is the first one in the order shape,
\* checksum, time window, replay.
C12_FailedValidationChangesNothing ==
    [][ (/\ securityManager[Page].activation.pc = "timer"
         /\ securityManager'[Page].activation.pc = "idle"
         /\ securityManager'[Page].result.failedAt # "none")
        => /\ ~securityManager'[Page].result.success
           /\ securityManager'[Page].result.failedAt =
                  FirstFailing(securityManager[Page].activation.key,
                               localStorage.usedKeys, now)
           /\ securityManager'[Page].licenseStatus = securityManager[Page].licenseStatus
           /\ localStorage' = localStorage
           /\ accepted' = accepted ]_vars

C12_Witness ==
    /\ Result.failedAt = "time"
    /\ InSeq(localStorage.usedKeys, Result.key)
    /\ securityManager[Page].licenseStatus.isPro

\* Group 2 of a key is a base-16 integer: four hexadecimal digits.
IsHexNumber(group) == \A i \in 1..Len(group) : HexValue(group[i]) >= 0

\* C13 (as claimed): a well-formed key with the right checksum that was not
\* used before validates exactly when 0 <= currentMinutes - issuedMinutes <= 5,
\* issuedMinutes being group 2 read as a base-16 integer.
C13_ValidatesIffInWindow ==
    (/\ Result.key # <<>>
     /\ WellFormed(Result.key)
     /\ Part(Result.key, 4) = CheckTable[Payload(Result.key)]
     /\ Result.failedAt # "replay")
    => (Result.success <=>
            /\ IsHexNumber(Part(Result.key, 2))
            /\ Result.at - ParseHexPrefix(Part(Result.key, 2), 0) >= 0
            /\ Result.at - ParseHexPrefix(Part(Result.key, 2), 0) <= 5)

\* No key occurs twice in a sequence of keys.
NoDuplicates(keys) == \A i, j \in 1..Len(keys) : keys[i] = keys[j] => i = j

\* C14: a key that validates is in the stored used keys when activateLicense
\* resolves true; validating it again fails and changes neither the used
\* keys nor licenseStatus; over any sequence of activations no key is
\* accepted twice.
C14_AcceptedAtMostOnce ==
    [][ /\ NoDuplicates(accepted')
        /\ \A i \in 1..Len(accepted') : InSeq(localStorage'.usedKeys, accepted'[i])
        /\ securityManager'[Page].result.success
           => InSeq(localStorage'.usedKeys, securityManager'[Page].result.key)
        /\ (/\ securityManager[Page].activation.pc = "timer"
            /\ securityManager'[Page].activation.pc = "idle"
            /\ app'[Page].ready
            /\ InSeq(accepted, securityManager[Page].activation.key))
           => /\ ~securityManager'[Page].result.success
              /\ securityManager'[Page].result.key = securityManager[Page].activation.key
              /\ localStorage'.usedKeys = localStorage.usedKeys
              /\ securityManager'[Page].licenseStatus = securityManager[Page].licenseStatus
              /\ accepted' = accepted ]_vars

C14_Witness ==
    /\ Result.failedAt = "replay"
    /\ InSeq(accepted, Result.key)
    /\ InTimeWindow(ParseInt16(Part(Result.key, 2)), Result.at)
    /\ IsHexNumber(Part(Result.key, 2))

\* hash * 31 + charCode, wrapped to a signed 32-bit integer
Times31Plus(h, code) == ToInt32(h.hi * 31, (h.lo * 31) + code)

RECURSIVE Fold31(_, _)
Fold31(input, h) ==
    IF input = <<>> THEN h
    ELSE LET next == Times31Plus(h, CharCodeAt(Head(input)))
         IN  IF next.lo >= 0 THEN Fold31(Tail(input), next) ELSE next

\* The checksum as claimed: the fold over groups 1-3 and the salt, its
\* absolute value in upper-case hexadecimal, padded to 4 and cut to the
\* last 4 characters.
ClaimedCheck(payload) ==
    SliceLast(PadStart(ToUpperCase(ToString16(Abs32(Fold31(payload \o Salt, Zero32)))),
                       4, "0"), 4)

\* ClaimedCheck and the two hashes for the payloads of the keys tried,
\* computed once.
ClaimedTable ==
    [payload \in {Payload(key) : key \in {k \in Keys : WellFormed(k)}} |->
        [check   |-> ClaimedCheck(payload),
         folded  |-> Fold31(payload \o Salt, Zero32),
         hashed  |-> HashOf(payload \o Salt, Zero32),
         calculated |-> CalculatedCheck(payload)]]

\* C16: the checksum the code computes is the claimed function of groups
\* 1-3; a key is accepted only if its group 4 equals it, refused for its
\* checksum only if it differs, and accepted keys with the same groups 1-3
\* have the same group 4.
C16_ChecksumDecidesGroup4 ==
    /\ \A payload \in DOMAIN ClaimedTable :
           /\ ClaimedTable[payload].calculated = ClaimedTable[payload].check
           /\ ClaimedTable[payload].hashed = ClaimedTable[payload].folded
    /\ Result.success => Part(Result.key, 4) = ClaimedTable[Payload(Result.key)].check
    /\ Result.failedAt = "checksum"
       => Part(Result.key, 4) # ClaimedTable[Payload(Result.key)].check
    /\ Result.failedAt \in {"time", "replay"}
       => Part(Result.key, 4) = ClaimedTable[Payload(Result.key)].check
    /\ \A i, j \in 1..Len(accepted) :
           Payload(accepted[i]) = Payload(accepted[j])
           => (/\ Part(accepted[i], 4) = Part(accepted[j], 4)
               /\ Part(accepted[i], 4) = ClaimedTable[Payload(accepted[i])].check)

C16_Witness ==
    /\ Result.failedAt = "checksum"
    /\ \E i \in 1..Len(accepted) : Payload(accepted[i]) = Payload(Result.key)

\* C15: when activateLicense succeeds licenseStatus is premium with
\* remainingFiles and maxFileSize Infinity, and as long as that
\* SecurityManager lives every consumeFileCredit returns true (no file is
\* refused for the daily limit, none throws) and changes neither
\* remainingFiles nor the stored counter.
C15_PremiumConsumesNothing ==
    [][ /\ securityManager'[Page].activated
           => /\ securityManager'[Page].licenseStatus.isPro
              /\ securityManager'[Page].licenseStatus.remainingFiles = Infinity
              /\ securityManager'[Page].licenseStatus.maxFileSize = Infinity
        /\ (securityManager[Page].activated /\ securityManager'[Page].activated)
           => /\ localStorage'.counter = localStorage.counter
              /\ app'[Page].pc # "threw"
              /\ app'[Page].refused \subseteq app[Page].refused
              /\ app'[Page].credited \subseteq app[Page].credited
              /\ \A i \in app'[Page].invoked \ app[Page].invoked :
                     i \notin app'[Page].credited ]_vars

C15_Witness ==
    /\ securityManager[Page].activated
    /\ app[Page].pc = "processFile"
    /\ app[Page].i \in app[Page].invoked
    /\ app[Page].files[app[Page].i].size > DefaultMaxFileSize
    /\ localStorage.counter.count = MaxFilesPerDay

\* C18: in a batch, once consumeFileCredit refuses file i the loop is left:
\* no file from i on is processed and none has a credit consumed; a file
\* rejected for its type or its size consumes no credit and is not
\* processed; a credit is consumed only for a file for which processFile is
\* invoked.
C18_CreditOnlyForProcessedFiles ==
    LET a == app[Page] IN
    /\ a.pc # "threw"
    /\ a.credited \subseteq a.invoked
    /\ a.rejected \cap (a.credited \cup a.invoked \cup a.refused) = {}
    /\ \A i \in a.refused :
           /\ a.pc = "idle"
           /\ a.refused = {i}
           /\ \A j \in i..Len(a.files) : j \notin a.invoked \cup a.credited

C18_Witness ==
    LET a == app[Page] IN
    /\ Len(a.files) = MaxBatch
    /\ a.rejected = {1}
    /\ a.invoked = {2}
    /\ a.credited = {2}
    /\ a.refused = {3}
    /\ TypeAccepted(a.files[MaxBatch])

\* handleFiles put a file before consumeFileCredit in this step.
CreditChecked ==
    /\ app'[Page].i \in app'[Page].credited \cup app'[Page].refused
    /\ \/ app'[Page].i # app[Page].i
       \/ app'[Page].files # app[Page].files
       \/ app'[Page].invoked # app[Page].invoked
       \/ app'[Page].credited # app[Page].credited
       \/ app'[Page].refused # app[Page].refused

\* C19 (as claimed): for a license that is not premium, when the calendar
\* date is no longer that of the stored counter, the next credit consumption
\* finds the full daily maximum: it is granted, and the stored counter then
\* is that of the new date, counting this one file.
C19_QuotaResetOnNewDay ==
    [][ (/\ CreditChecked
         /\ ~securityManager[Page].licenseStatus.isPro
         /\ localStorage.counter.present
         /\ localStorage.counter.date # Today(now))
        => /\ app'[Page].i \in app'[Page].credited
           /\ securityManager'[Page].licenseStatus.remainingFiles = MaxFilesPerDay - 1
           /\ localStorage'.counter =
                  [present |-> TRUE, date |-> Today(now), count |-> 1] ]_vars

\* How many times a key was accepted.
TimesAccepted(key) == Cardinality({i \in 1..Len(accepted) : accepted[i] = key})

\* C17 (as claimed): validations of the same key that run at the same time,
\* in one page or in several pages on the same storage, are serialized: at
\* most one of them succeeds.
C17_AtMostOneSucceeds == \A key \in Keys : TimesAccepted(key) <= 1

\* C21 (as claimed): a call of processFile with a file of an unsupported
\* kind is reported as an error at once: no stage runs, no progress event of
\* any stage is emitted, no image is loaded, no canvas created, no OCR call
\* made; the only thing the run emits is the error.
C21_InputErrorRunsNothing ==
    \A r \in Runs :
        run[r].rejection = "Unsupported file type"
        => \A i \in 1..Len(log[r]) : log[r][i].kind = "error"

\* C22 (as claimed): in a failing run the last progress event before the
\* error names the stage that failed; a progress event 'complete' with
\* progress 1.0 is never followed by an error event of the same run.
C22_NoErrorAfterComplete ==
    \A r \in Runs :
        \A i, j \in 1..Len(log[r]) :
            (/\ i < j
             /\ log[r][i].kind = "progress"
             /\ log[r][i].name = "complete"
             /\ log[r][i].progress = D100)
            => log[r][j].kind # "error"

\* C23 (as claimed): a terminate request made while a run is in flight
\* takes the worker down and releases the engine's resources only once that
\* run has completed or failed: when the worker is gone no run is left
\* suspended in a stage.
C23_TeardownAfterRun ==
    ~worker.alive => \A r \in worker.interrupted : ~InFlight(r)

LastBoxes == Last(redaction.history)

\* The box lies within the canvas and has pixels.
InImage(canvas, bbox) ==
    /\ 0 <= bbox.x0 /\ bbox.x0 < bbox.x1 /\ bbox.x1 <= canvas.width
    /\ 0 <= bbox.y0 /\ bbox.y0 < bbox.y1 /\ bbox.y1 <= canvas.height

\* The pixel (x, y) is in the box.
InBox(bbox, x, y) ==
    /\ bbox.x0 <= x /\ x < bbox.x1
    /\ bbox.y0 <= y /\ y < bbox.y1

\* The pixel of a canvas at (x, y), transparent black outside it.
PixelAt(canvas, x, y) ==
    IF /\ 0 <= x /\ x < canvas.width
       /\ 0 <= y /\ y < canvas.height
    THEN canvas.data[y * canvas.width + x]
    ELSE TransparentBlack

Colour(pixel) == <<pixel.r, pixel.g, pixel.b>>

\* One call with one box, from a canvas.
Redact(canvas, bbox) ==
    BlurRegionsOn(canvas, <<bbox>>, redaction.blurIntensity).canvas

\* C25: redacting the same box with the same block size twice gives the
\* pixels that redacting it once gives: in two calls, in one call that
\* names the box twice, and from every canvas reached, for every box.
C25_RedactionIdempotent ==
    /\ (/\ Len(redaction.history) = 2
        /\ redaction.history[1] = redaction.history[2]
        /\ Len(redaction.history[1]) = 1)
       => redaction.canvas = redaction.before
    /\ (/\ redaction.history # <<>>
        /\ Len(LastBoxes) = 2
        /\ LastBoxes[1] = LastBoxes[2])
       => redaction.canvas = Redact(redaction.before, LastBoxes[1])
    /\ \A bbox \in Boxes :
           Redact(Redact(redaction.canvas, bbox), bbox) = Redact(redaction.canvas, bbox)

C25_Witness ==
    /\ redaction.history = << <<Box(0, 0, 3, 3)>>, <<Box(0, 0, 3, 3)>> >>
    /\ redaction.blurIntensity = 2
    /\ redaction.canvas # DrawnImage
    /\ redaction.canvas = redaction.before

\* C26 (as claimed): the order of the boxes of a call does not show in the
\* result: boxes within the image, overlapping or not, aligned on blocks or
\* not, give the same pixels when taken in the reverse order.
C26_OrderIndependent ==
    (/\ redaction.history # <<>>
     /\ Len(LastBoxes) = 2
     /\ \A i \in 1..2 : InImage(redaction.before, LastBoxes[i]))
    => redaction.canvas =
           BlurRegionsOn(redaction.before, <<LastBoxes[2], LastBoxes[1]>>,
                         redaction.blurIntensity).canvas

\* The pixels of the box follow the block rule of bbox from canvas `from`
\* to canvas `to`: each takes the colour of the top-left pixel of its block,
\* blocks counted from the corner of the box and cut at its edges.
BlockRule(from, to, bbox, size) ==
    \A x \in 0..(to.width - 1), y \in 0..(to.height - 1) :
        InBox(bbox, x, y)
        => Colour(PixelAt(to, x, y)) =
               Colour(PixelAt(from,
                              bbox.x0 + ((x - bbox.x0) \div size) * size,
                              bbox.y0 + ((y - bbox.y0) \div size) * size))

OutsideImage(canvas, bbox) ==
    \/ bbox.x0 < 0 \/ bbox.y0 < 0
    \/ bbox.x1 > canvas.width \/ bbox.y1 > canvas.height

\* C28 (as claimed): blurRegions given a box that reaches outside the image
\* raises and leaves the pixels as they were; the box is not cut to the
\* image.
C28_OutsideBoxRaises ==
    (/\ redaction.history # <<>>
     /\ \E i \in 1..Len(LastBoxes) : OutsideImage(redaction.before, LastBoxes[i]))
    => /\ redaction.threw
       /\ redaction.canvas = redaction.before

\* C29 (as claimed): processFile checks its options on entry, so that a
\* block size outside 1..50 is brought into the range or the call refused
\* before any stage runs: no canvas is ever pixelated with a block size
\* outside 1..50.
C29_BlockSizeInRange ==
    \A c \in Runs : buffers[c].sizes \subseteq 1..MaxBlurIntensity

\* sub is a run of consecutive characters of s.
IsSubstring(sub, s) ==
    \E i \in 0..Len(s), j \in 0..Len(s) : i <= j /\ SubSeq(s, i + 1, j) = sub

\* The targets of a run's text and the pairs (target, word) that match.
TargetsOf(r) ==
    LET nlp == Analyze(run[r].ocr.text, nlpLoaded) IN nlp.entities \o nlp.sensitive

MatchingPairs(r) ==
    {p \in (1..Len(TargetsOf(r))) \X (1..Len(run[r].ocr.words)) :
        IsSubstring(Normalize(Chars(run[r].ocr.words[p[2]].text)),
                    Normalize(Chars(TargetsOf(r)[p[1]].text)))}

\* The box that the pair (target, word) stands for.
BoxOfPair(r, p) ==
    [bbox |-> run[r].ocr.words[p[2]].bbox,
     type |-> TargetsOf(r)[p[1]].type,
     text |-> run[r].ocr.words[p[2]].text]

\* C30: mapEntitiesToWords emits a box for a target s and a word w exactly
\* when normalize(w.text) is a substring of normalize(s.text): one box per
\* matching pair, with the bounding box of w as it is and the kind of s, and
\* no other box; these are the boxes the blur stage pixelates.
C30_BoxPerMatchingPair ==
    \A r \in Runs :
        LET boxes == MapEntitiesToWords(Analyze(run[r].ocr.text, nlpLoaded),
                                        run[r].ocr.words)
        IN  /\ Len(boxes) = Cardinality(MatchingPairs(r))
            /\ \A p \in MatchingPairs(r) :
                   Cardinality({k \in 1..Len(boxes) : boxes[k] = BoxOfPair(r, p)})
                       = Cardinality({q \in MatchingPairs(r) :
                                          BoxOfPair(r, q) = BoxOfPair(r, p)})
            /\ \A k \in 1..Len(boxes) :
                   \E p \in MatchingPairs(r) : boxes[k] = BoxOfPair(r, p)
            /\ (run[r].output.kind # "none" /\ Has(r, "progress", "blur_complete"))
               => run[r].output.pixels.blurred =
                      {run[r].ocr.words[p[2]].bbox.id : p \in MatchingPairs(r)}

C30_Witness ==
    \E r \in Runs :
        /\ run[r].ocr.text = "Marie Dupont - jean@example.com"
        /\ Has(r, "progress", "blur_complete")
        /\ run[r].output.pixels.blurred = {1, 2, 3, 4}
        /\ Cardinality(MatchingPairs(r)) = 5
        /\ <<1, 4>> \notin MatchingPairs(r)

\* C31 (as claimed): for each 'process' command the worker handles, the
\* callbacks of the WorkerManager get one terminal notification, onComplete
\* or onError: the notifications delivered never outnumber the commands
\* handled.
C31_OneTerminalNotification ==
    workerManager.onComplete + workerManager.onError <= calls

\* C32 (as claimed): _pixelate, entered with a region of positive width and
\* height and any integer block size, returns after finitely many steps.
C32_PixelateTerminates ==
    (redaction.pixelate.pc = "outer") ~> (redaction.pixelate.pc = "done")

\* The characters of a group are all hexadecimal digits.
IsHexGroup(group) == \A i \in 1..Len(group) : HexValue(group[i]) >= 0

\* C33 (as claimed): every key that activateLicense accepts has a second
\* group of four hexadecimal digits; a well-formed, unused key with the
\* right checksum whose second group has a character outside 0-9A-F is
\* turned down by the time-window check.
C33_AcceptedGroupIsHex ==
    \A i \in 1..Len(accepted) : IsHexGroup(Part(accepted[i], 2))

\* The second groups of four hexadecimal digits.
HexGroups ==
    [1..4 -> {"0","1","2","3","4","5","6","7","8","9","A","B","C","D","E","F"}]

\* C34 (as claimed): at every clock reading, readings above 0xFFFF minutes
\* included, some key whose second group is four hexadecimal digits passes
\* the time-window check, so that premium activation stays possible.
C34_ActivationReachable ==
    now > ParseInt16(<<"F","F","F","F">>).value
    => \E group \in HexGroups : InTimeWindow(ParseInt16(group), now)

\* The count stored for today, 0 when none is stored.
PersistedCount ==
    IF localStorage.counter.present /\ localStorage.counter.date = Today(now)
    THEN localStorage.counter.count ELSE 0

\* C35 (as claimed): for a user without a license, whatever operations of
\* the SecurityManager are called within one day, consumeFileCredit returns
\* true at most 5 times, the remaining quota in memory is never negative,
\* and the remaining quota plus the count stored for today is the daily
\* maximum.
C35_DailyQuota ==
    /\ securityManager[Page].granted <= MaxFilesPerDay
    /\ securityManager[Page].licenseStatus.remainingFiles >= 0
    /\ securityManager[Page].licenseStatus.remainingFiles + PersistedCount = MaxFilesPerDay

\* A license is stored whose expiration date is later than the clock.
LicenseInForce ==
    localStorage.license.present /\ localStorage.license.expirationDate > now

\* C36 (as claimed): the license state a call of checkLicense returns is
\* premium exactly when a license is stored whose expiration date is later
\* than the current time; a state that was premium is no longer premium
\* once the stored license has expired or is gone.
C36_PremiumIffLicenseInForce ==
    [][ \A t \in Tabs :
            (InitializeApp(t) \/ RecheckLicense(t))
            => (/\ app'[t].licenseStatus.isPro <=> LicenseInForce
                /\ securityManager'[t].licenseStatus.isPro <=> LicenseInForce) ]_vars

\* C37 (as claimed): the detection by patterns does not need the recognizer
\* of named entities: a run asked to anonymize whose text holds a match of a
\* pattern goes through the redaction stage (blur_start is emitted), whether
\* or not window.nlp exists where the engine runs.
C37_PatternsWithoutRecognizer ==
    \A r \in Runs :
        (/\ run[r].options.anonymize
         /\ ~run[r].options.extractTextOnly
         /\ Has(r, "op", "analyze")
         /\ DetectSensitiveValues(run[r].ocr.text) # <<>>)
        => Has(r, "progress", "blur_start")

\* C38: when a batch of handleFiles has come to its end, successCount +
\* errorCount + skippedCount is the number of files of the batch, and
\* successCount is the number of files for which processFile resolved.
C38_CountsAddUp ==
    \A t \in Tabs :
        (app[t].pc = "idle" /\ app[t].files # <<>>)
        => /\ app[t].successCount + app[t].errorCount + app[t].skippedCount
                  = Len(app[t].files)
           /\ app[t].successCount = Cardinality(app[t].resolved)

C38_Witness ==
    /\ app[Page].pc = "idle"
    /\ Len(app[Page].files) = 3
    /\ app[Page].successCount = 1
    /\ app[Page].errorCount = 0
    /\ app[Page].skippedCount = 2

\* C39 (as claimed): a run started through the worker is watermarked as the
\* license state of its own 'process' command says, also when that state
\* is not the one the worker was initialized with.
C39_WatermarkByCommand ==
    \A r \in Runs :
        (/\ worker.engine
         /\ worker.commanded[r].given
         /\ Has(r, "progress", "export"))
        => /\ run[r].licenseRead = Constructor(worker.commanded[r])
           /\ Has(r, "op", "addSmartWatermark")
                  <=> Truthy(worker.commanded[r].requiresWatermark)

====
